---- MODULE Spec2Model ----
(***************************************************************************)
(* Portalcrane: the authenticating registry reverse proxy                 *)
(* (backend/app/routers/registry_proxy.py, folders.py, auth.py,           *)
(* services/audit_service.py) and the staging job engine                  *)
(* (backend/app/routers/staging.py).                                      *)
(*                                                                         *)
(* Strings with structure are modelled by their structure:                *)
(*   - a v2 path / image path is the sequence of its "/"-separated        *)
(*     segments ("" is <<>>, "prod/nginx" is <<"prod","nginx">>);         *)
(*   - a password is <<first 72 bytes, remaining bytes>>;                 *)
(*   - an Authorization header is a record (scheme, payload).             *)
(* Python's None is the string "None" where the other values are strings, *)
(* 0 where they are indices or status codes, <<>> where they are lists.   *)
(***************************************************************************)
EXTENDS Integers, Sequences, FiniteSets, TLC

VARIABLES
    \* ---- policy snapshot and configuration (files / settings) ----
    users,          \* local_users.json: list of user dicts
    folders,        \* folders.json: list of folder dicts
    authEnabled,    \* settings.registry_proxy_auth_enabled
    \* ---- registry proxy ----
    audit,          \* the module-level AuditService instance of registry_proxy.py
    pc,             \* per request handler: where the coroutine _proxy stands
    req,            \* per request handler: the request being served
    resp,           \* per request handler: the response returned
    events,         \* per request handler: audit events its calls of audit.log stored
    contacted,      \* per request handler: client.request(...) was issued upstream
    \* ---- folder resolution applied to one path (pure functions) ----
    probe,
    \* ---- staging job engine ----
    settings,       \* settings.clamav_enabled, settings.vuln_scan_enabled
    jobs,           \* _jobs: job_id -> job dict
    tarballs,       \* the <job_id>.tar files present in the staging directory
    strays,         \* the other entries of the staging directory
    issued,         \* the job ids uuid4() has returned
    pullTask,       \* per job: the background task run_pull_pipeline
    pushTasks,      \* per job: the background tasks run_push_pipeline
    statusLog,      \* per job: its status before the last step that assigned
                    \* "status", then the values that step assigned, in order
    api,            \* the last response of a staging endpoint
    \* ---- garbage collection (routers/registry.py, services/process_manager.py) ----
    gc,             \* _gc_state
    gcTasks,        \* the background tasks _run_gc
    sysTasks,       \* the calls of run_registry_garbage_collect
    gcLock,         \* REGISTRY_GC_LOCK: the call holding it, 0 when free
    supervisor,     \* the registry process as supervisord runs it
    gcExec,         \* the garbage-collect command started last, with the state of
                    \* the registry process at that moment
    gcApi,          \* the last response of a GC endpoint
    gcDisk,         \* shutil.disk_usage("/var/lib/registry").used
    \* ---- audit sink (services/audit_service.py) ----
    ring,           \* _recent_audit_events
    auditMax,       \* _audit_max_events
    auditFile,      \* the lines of audit-events.jsonl
    emitter,        \* per thread: where its call of _store_recent_event stands
    emitted,        \* number of events appended to the ring so far
    sinceRecent,    \* events whose emit returned since the last call of recent
    recentOut,      \* the last call of get_recent_audit_events
    \* ---- replication (services/external_registry_service.py) ----
    catalog,        \* the local registry: its repositories and their tags
    syncJobs,       \* _sync_jobs
    syncTask,       \* per sync job: where its task _execute_sync stands
    registries,     \* the list stored in external_registries.json
    regOut,         \* the last response of a registry CRUD endpoint
    \* ---- removal of a path by a purge (pure functions) ----
    removal

proxyVars == <<audit, pc, req, resp, events, contacted>>
policyVars == <<users, folders, authEnabled>>
stagingVars == <<settings, jobs, tarballs, strays, issued, pullTask, pushTasks, statusLog, api>>
gcVars == <<gc, gcTasks, sysTasks, gcLock, supervisor, gcExec, gcApi, gcDisk>>
auditVars == <<ring, auditMax, auditFile, emitter, emitted, sinceRecent, recentOut>>
regVars == <<registries, regOut>>
syncVars == <<catalog, syncJobs, syncTask, registries, regOut>>
vars == <<users, folders, authEnabled, audit, pc, req, resp, events, contacted, probe,
          settings, jobs, tarballs, strays, issued, pullTask, pushTasks, statusLog, api,
          gc, gcTasks, sysTasks, gcLock, supervisor, gcExec, gcApi, gcDisk,
          ring, auditMax, auditFile, emitter, emitted, sinceRecent, recentOut,
          catalog, syncJobs, syncTask, registries, regOut, removal>>

None == "None"

Min(S) == CHOOSE x \in S : \A y \in S : x <= y

Max(S) == CHOOSE x \in S : \A y \in S : y <= x

\* ------------------------------------------------------------------------
\* Settings (config.py)
\* ------------------------------------------------------------------------
admin_username == "admin"
admin_password == <<"changeme", "">>

\* ------------------------------------------------------------------------
\* auth.py: password hashing and the user store
\* ------------------------------------------------------------------------
\* password.encode("utf-8")[:72]
Truncate72(password) == password[1]

\* bcrypt.hashpw(secret, salt): determined, for verification, by the secret
_hash_password(password) == [bcrypt |-> Truncate72(password)]

_verify_password(plain, hashed) == hashed = [bcrypt |-> Truncate72(plain)]

_load_users == users

\* index of the first user dict with that username, 0 when the loop ends
FirstUser(username) ==
    LET hits == {i \in 1..Len(_load_users) : _load_users[i].username = username}
    IN  IF hits = {} THEN 0 ELSE Min(hits)

\* faulty variant: the password of a local user is not compared
_verify_user_AnyPassword(username, password) ==
    IF username = admin_username /\ password = admin_password THEN TRUE
    ELSE FirstUser(username) # 0

_verify_user(username, password) ==
    IF username = admin_username /\ password = admin_password THEN TRUE
    ELSE IF FirstUser(username) # 0
         THEN _verify_password(password, users[FirstUser(username)].password_hash)
         ELSE FALSE

_is_admin_user(username) ==
    IF username = admin_username THEN TRUE
    ELSE IF FirstUser(username) # 0 THEN users[FirstUser(username)].is_admin
         ELSE FALSE

\* faulty variant: the pull right is read from the push flag
_can_pull_images_PushFlag(username) ==
    IF username = admin_username THEN TRUE
    ELSE IF FirstUser(username) # 0
         THEN IF users[FirstUser(username)].is_admin THEN TRUE
              ELSE users[FirstUser(username)].can_push_images
         ELSE FALSE

_can_pull_images(username) ==
    IF username = admin_username THEN TRUE
    ELSE IF FirstUser(username) # 0
         THEN IF users[FirstUser(username)].is_admin THEN TRUE
              ELSE users[FirstUser(username)].can_pull_images
         ELSE FALSE

_can_push_images(username) ==
    IF username = admin_username THEN TRUE
    ELSE IF FirstUser(username) # 0
         THEN IF users[FirstUser(username)].is_admin THEN TRUE
              ELSE users[FirstUser(username)].can_push_images
         ELSE FALSE

\* get_current_user for a valid token whose "sub" is username: the UserInfo
get_current_user(username) ==
    [ username        |-> username,
      is_admin        |-> _is_admin_user(username),
      can_pull_images |-> _can_pull_images(username),
      can_push_images |-> _can_push_images(username) ]

\* TRUE when the dependency returns the user, FALSE when it raises 403
require_push_access(current_user) == current_user.can_push_images

\* ------------------------------------------------------------------------
\* folders.py: folder lookup and the folder access rule
\* ------------------------------------------------------------------------
_load_folders == folders

\* faulty variant: the test for a "/" in image_path is missing
get_folder_for_path_NoSlashTest(image_path) ==
    IF Len(image_path) = 0
    THEN 0
    ELSE LET prefix == image_path[1]
             hits == {i \in 1..Len(_load_folders) : _load_folders[i].name = prefix}
         IN  IF hits = {} THEN 0 ELSE Min(hits)

\* index in _load_folders() of the folder returned, 0 for None
get_folder_for_path(image_path) ==
    IF Len(image_path) <= 1      \* not image_path or "/" not in image_path
    THEN 0
    ELSE LET prefix == image_path[1]
             hits == {i \in 1..Len(_load_folders) : _load_folders[i].name = prefix}
         IN  IF hits = {} THEN 0 ELSE Min(hits)

\* faulty variant: a user without an entry in the folder falls back to the global rules
check_folder_access_NoEntryFallsBack(username, image_path, is_pull) ==
    LET f == get_folder_for_path(image_path)
    IN  IF f = 0 THEN None
        ELSE LET perms == _load_folders[f].permissions
                 hits == {i \in 1..Len(perms) : perms[i].username = username}
             IN  IF hits = {} THEN None
                 ELSE LET perm == perms[Min(hits)]
                      IN  IF is_pull
                          THEN (IF perm.can_pull THEN "True" ELSE "False")
                          ELSE (IF perm.can_push THEN "True" ELSE "False")

\* "True" / "False" / "None"
check_folder_access(username, image_path, is_pull) ==
    LET f == get_folder_for_path(image_path)
    IN  IF f = 0 THEN None
        ELSE LET perms == _load_folders[f].permissions
                 hits == {i \in 1..Len(perms) : perms[i].username = username}
             IN  IF hits = {} THEN "False"
                 ELSE LET perm == perms[Min(hits)]
                      IN  IF is_pull
                          THEN (IF perm.can_pull THEN "True" ELSE "False")
                          ELSE (IF perm.can_push THEN "True" ELSE "False")

\* ------------------------------------------------------------------------
\* registry_proxy.py: pure helpers
\* ------------------------------------------------------------------------
_PULL_METHODS == {"GET", "HEAD"}
_PUSH_METHODS == {"POST", "PUT", "PATCH", "DELETE"}

\* the markers of _extract_image_path, in the order of the for loop:
\* "/manifests/", "/blobs/", "/tags/", "/uploads/", "/uploads"
\* (slash = the marker ends with "/", so a segment must follow)
Markers ==
    << [seg |-> "manifests", slash |-> TRUE],
       [seg |-> "blobs",     slash |-> TRUE],
       [seg |-> "tags",      slash |-> TRUE],
       [seg |-> "uploads",   slash |-> TRUE],
       [seg |-> "uploads",   slash |-> FALSE] >>

\* v2_path.find(marker): the segment positions where the marker occurs.  The
\* marker starts with "/", so it never occurs at the first segment.
MarkerHits(v2_path, m) ==
    {i \in 2..Len(v2_path) : v2_path[i] = m.seg /\ (m.slash => i < Len(v2_path))}

RECURSIVE ExtractFrom(_, _)
ExtractFrom(v2_path, k) ==
    IF k > Len(Markers) THEN v2_path
    ELSE IF MarkerHits(v2_path, Markers[k]) # {}
         THEN SubSeq(v2_path, 1, Min(MarkerHits(v2_path, Markers[k])) - 1)
         ELSE ExtractFrom(v2_path, k + 1)

_extract_image_path(v2_path) == ExtractFrom(v2_path, 1)

\* header: [scheme, wellformed, user, pwd, sub]
\*   scheme "none": no Authorization header
_decode_basic_auth(auth_header) ==
    IF auth_header.scheme = "basic" /\ auth_header.wellformed
    THEN <<auth_header.user, auth_header.pwd>>
    ELSE <<>>

\* faulty variant: the signature of the token is not verified
_decode_bearer_username_Unverified(auth_header) ==
    IF auth_header.scheme = "bearer" THEN auth_header.sub ELSE None

\* jwt.decode fails (JWTError) unless the token is well signed; then payload.get("sub")
_decode_bearer_username(auth_header) ==
    IF auth_header.scheme = "bearer" /\ auth_header.wellformed
    THEN auth_header.sub
    ELSE None

\* request.headers x-forwarded-for (a list of addresses, <<>> when absent or
\* empty) and request.client.host (None when there is no client)
_client_ip(request) ==
    IF request.xff # <<>> THEN request.xff[1]
    ELSE IF request.client # None THEN request.client ELSE "unknown"

\* faulty variant: the status and the size come from the instance attributes
AuditLog_AttributesOnly(a, subject, status, size) ==
    [ event       |-> subject,
      path        |-> a.path,
      method      |-> a.method,
      http_status |-> a.http_status,
      bytes       |-> a.size,
      client_ip   |-> a.client_ip,
      username    |-> a.username ]

\* AuditService.log: the event built from the arguments and, for the fields not
\* given, from the instance attributes
AuditLog(a, subject, status, size) ==
    [ event       |-> subject,
      path        |-> a.path,
      method      |-> a.method,
      http_status |-> IF status # 0 THEN status ELSE a.http_status,
      bytes       |-> IF size # 0 THEN size ELSE a.size,
      client_ip   |-> a.client_ip,
      username    |-> a.username ]

\* _unauthorized_response / _forbidden_response: what is logged and returned
Deny(a, code, detail) ==
    [ code      |-> code,
      detail    |-> detail,
      challenge |-> (code = 401),      \* WWW-Authenticate: Basic realm=...
      audit     |-> a,
      logged    |-> <<AuditLog(a, "registry_authorize", code, 0)>> ]

Pass(a, logged) ==
    [ code |-> 0, detail |-> "", challenge |-> FALSE, audit |-> a, logged |-> logged ]

\* faulty variant: a push outside every folder is decided by the global push right
AuthorizeUser_GlobalPush(a0, username, method, v2_path) ==
    LET a == [a0 EXCEPT !.username = username]
        is_pull == method \in _PULL_METHODS
        is_push == method \in _PUSH_METHODS
        image_path == _extract_image_path(v2_path)
        folder_result == check_folder_access(username, image_path, is_pull)
    IN  IF _is_admin_user(username) THEN Pass(a, <<>>)
        ELSE IF folder_result # None
        THEN IF folder_result = "False"
             THEN Deny(a, 403, IF is_pull
                               THEN "Folder access denied: pull permission required"
                               ELSE "Folder access denied: push permission required")
             ELSE Pass(a, <<>>)
        ELSE IF is_push /\ ~_can_push_images(username)
        THEN Deny(a, 403, "Push to root namespace is restricted to administrators")
        ELSE IF is_pull /\ ~_can_pull_images(username)
        THEN Deny(a, 403, "Pull permission required")
        ELSE Pass(a, <<AuditLog(a, "registry_authorize", 200, 0)>>)

\* _authorize_registry_proxy from "audit.username = username" on, with the
\* AuditService instance a0; code 0 is the return of None
AuthorizeUser(a0, username, method, v2_path) ==
    LET a == [a0 EXCEPT !.username = username]
        is_pull == method \in _PULL_METHODS
        is_push == method \in _PUSH_METHODS
        image_path == _extract_image_path(v2_path)
        folder_result == check_folder_access(username, image_path, is_pull)
    IN  IF _is_admin_user(username) THEN Pass(a, <<>>)
        ELSE IF folder_result # None
        THEN IF folder_result = "False"
             THEN Deny(a, 403, IF is_pull
                               THEN "Folder access denied: pull permission required"
                               ELSE "Folder access denied: push permission required")
             ELSE Pass(a, <<>>)
        ELSE IF is_push
        THEN Deny(a, 403, "Push to root namespace is restricted to administrators")
        ELSE IF is_pull /\ ~_can_pull_images(username)
        THEN Deny(a, 403, "Pull permission required")
        ELSE Pass(a, <<AuditLog(a, "registry_authorize", 200, 0)>>)

_authorize_registry_proxy(a, auth_header, method, v2_path) ==
    IF ~authEnabled THEN Pass(a, <<>>)
    ELSE IF auth_header.scheme = "none" THEN Deny(a, 401, "Authentication required")
    ELSE LET basic == _decode_basic_auth(auth_header)
         IN  IF basic # <<>>
             THEN IF ~_verify_user(basic[1], basic[2])
                  THEN Deny(a, 401, "Invalid credentials")
                  ELSE AuthorizeUser(a, basic[1], method, v2_path)
             ELSE LET username == _decode_bearer_username(auth_header)
                  IN  IF username = None \/ username = ""
                      THEN Deny(a, 401, "Invalid bearer token")
                      ELSE AuthorizeUser(a, username, method, v2_path)

\* ------------------------------------------------------------------------
\* staging.py: the job table at start-up
\* ------------------------------------------------------------------------
JobIds == {"j1", "j2"}      \* the uuid4 values that can be drawn
OneJob == {"j1"}
MaxPushes == 2              \* push requests accepted per job

JobStatus ==
    { "pending", "pulling", "scanning", "scan_skipped", "vuln_scanning", "scan_clean",
      "scan_vulnerable", "scan_infected", "pushing", "done", "failed" }

\* an override is "None", "True" or "False"
Overrides == {None, "True", "False"}

_effective_clamav(override) ==
    IF override # None THEN override = "True" ELSE settings.clamav_enabled

_effective_vuln(override) ==
    IF override # None THEN override = "True" ELSE settings.vuln_scan_enabled

NoTask == [pc |-> "none"]

StagingIdle ==
    /\ jobs = <<>>
    /\ tarballs = {}
    /\ strays = {}
    /\ issued = {}
    /\ pullTask = [j \in JobIds |-> NoTask]
    /\ pushTasks = [j \in JobIds |-> [k \in 1..MaxPushes |-> NoTask]]
    /\ statusLog = [j \in JobIds |-> <<>>]
    /\ api = [op |-> "none"]

\* the staging engine at rest, for the specifications of the other components
StagingOff ==
    /\ settings = [clamav_enabled |-> FALSE, vuln_scan_enabled |-> TRUE]
    /\ StagingIdle

\* ------------------------------------------------------------------------
\* registry.py, process_manager.py: garbage collection at start-up
\* ------------------------------------------------------------------------
MaxGCRuns == 2              \* POST /api/registry/gc requests accepted
MaxSysRuns == 2             \* POST /api/system/gc requests

\* _gc_state as the module creates it; a time is the number of the run that
\* wrote it, 0 for None
NewGCState ==
    [ status |-> "idle", started_at |-> 0, finished_at |-> 0, output |-> "",
      freed_bytes |-> 0, error |-> None ]

\* no run of _run_gc or of run_registry_garbage_collect has started
GCTasksIdle ==
    /\ gc = NewGCState
    /\ gcTasks = [k \in 1..MaxGCRuns |-> [pc |-> "none", sup |-> "none", size_before |-> 0]]
    /\ sysTasks = [k \in 1..MaxSysRuns |-> [pc |-> "none", sup |-> "none"]]
    /\ gcLock = 0
    /\ supervisor = "RUNNING"
    /\ gcExec = [run |-> "none"]
    /\ gcApi = [op |-> "none"]

GCIdle == GCTasksIdle /\ gcDisk = 0

\* ------------------------------------------------------------------------
\* audit_service.py: the ring and the file at start-up
\* ------------------------------------------------------------------------
Threads == {1, 2}           \* threads that call the audit functions

AuditIdle ==
    /\ ring = <<>>
    /\ auditFile = <<>>
    /\ emitter = [t \in Threads |-> [pc |-> "idle"]]
    /\ emitted = 0
    /\ sinceRecent = {}
    /\ recentOut = [op |-> "none"]

NoRemoval == [stage |-> "none"]

\* ------------------------------------------------------------------------
\* external_registry_service.py: no sync job yet, an empty local registry
\* ------------------------------------------------------------------------
SyncIds == {"s1"}           \* the uuid4 values that can be drawn

EmptyCatalog == [repositories |-> <<>>, tags |-> <<>>]

SyncIdle ==
    /\ syncJobs = <<>>
    /\ syncTask = [j \in SyncIds |-> [pc |-> "none"]]
    /\ registries = <<>>
    /\ regOut = [op |-> "none"]

SyncOff == catalog = EmptyCatalog /\ SyncIdle

\* the other components at rest, for the specification of one component
GCOff == GCIdle

AuditOff == auditMax = 1 /\ AuditIdle

\* ------------------------------------------------------------------------
\* The inputs: policy snapshots and requests
\* ------------------------------------------------------------------------
Slots == {1, 2}        \* request handlers that can be in flight together

AlicePassword == <<"s3cret", "">>

UserRec(name, pw, adm, pull, push) ==
    [ username |-> name, password_hash |-> _hash_password(pw), is_admin |-> adm,
      can_pull_images |-> pull, can_push_images |-> push ]

\* create_local_user stores can_pull_images = can_push_images = True for an admin
UserFlags ==
    { f \in [adm : BOOLEAN, pull : BOOLEAN, push : BOOLEAN] :
        f.adm => (f.pull /\ f.push) }

UserTables ==
    { <<UserRec("alice", AlicePassword, f.adm, f.pull, f.push)>> : f \in UserFlags }

Perm(name, pull, push) == [username |-> name, can_pull |-> pull, can_push |-> push]

FolderRec(name, perms) == [name |-> name, permissions |-> perms]

FolderTables ==
    { <<>> } \cup
    { <<FolderRec("prod", <<Perm("alice", pull, push)>>)>> :
        pull \in BOOLEAN, push \in BOOLEAN } \cup
    { <<FolderRec("dev", <<Perm("alice", TRUE, TRUE)>>), FolderRec("prod", <<>>)>> }

Header(scheme, wellformed, user, pwd, sub) ==
    [scheme |-> scheme, wellformed |-> wellformed, user |-> user, pwd |-> pwd, sub |-> sub]

NoHeader == Header("none", FALSE, "", <<"", "">>, None)
Basic(user, pwd) == Header("basic", TRUE, user, pwd, None)
BasicUndecodable == Header("basic", FALSE, "", <<"", "">>, None)
Bearer(sub) == Header("bearer", TRUE, "", <<"", "">>, sub)
BearerBadSignature == Header("bearer", FALSE, "", <<"", "">>, "alice")
OtherScheme == Header("digest", FALSE, "", <<"", "">>, None)

ProxyHeaders ==
    { NoHeader,
      Basic(admin_username, admin_password), Basic(admin_username, <<"guess", "">>),
      Basic("alice", AlicePassword), Basic("alice", <<"s3cret", "tail">>),
      Basic("alice", <<"guess", "">>), Basic("mallory", <<"guess", "">>),
      BasicUndecodable,
      Bearer("alice"), Bearer("ghost"), Bearer(None), Bearer(""), BearerBadSignature,
      OtherScheme }

ProxyPaths ==
    { <<>>,
      <<"_catalog">>,
      <<"nginx", "manifests", "latest">>,
      <<"prod", "manifests", "latest">>,
      <<"prod", "nginx", "manifests", "latest">>,
      <<"dev", "nginx", "blobs", "sha256:abc">>,
      <<"prod", "nginx", "blobs", "uploads", "">>,
      <<"prod", "manifests", "tags", "list">> }

Request(method, v2_path, header, xff, client, body) ==
    [ method |-> method, v2_path |-> v2_path, header |-> header,
      xff |-> xff, client |-> client, body |-> body ]

\* the routes: "/v2/" takes GET and HEAD only, "/v2/{path:path}" the six methods
Routed(method, v2_path) == v2_path = <<>> => method \in _PULL_METHODS

ProxyRequests ==
    { Request(m, p, h, <<>>, "10.0.0.1", b) :
        m \in _PULL_METHODS \cup _PUSH_METHODS, p \in ProxyPaths, h \in ProxyHeaders,
        b \in {0} }

NoRequest == [method |-> "none"]
NoResponse == [status |-> 0]

\* AuditService.__init__
NewAuditService ==
    [ path |-> None, method |-> None, http_status |-> 200, size |-> 0,
      client_ip |-> None, username |-> None ]

\* ------------------------------------------------------------------------
\* registry_proxy.py: _proxy, one action per stretch between suspension points
\* ------------------------------------------------------------------------
\* from the entry of _proxy to the return of authz_error or to await request.body():
\* audit.log has no await inside, so nothing runs in between
ProxyAuthorize(r, request) ==
    /\ pc[r] = "idle"
    /\ Routed(request.method, request.v2_path)
    /\ LET a1 == [audit EXCEPT !.path = request.v2_path,
                               !.client_ip = _client_ip(request),
                               !.method = request.method]
           res == _authorize_registry_proxy(a1, request.header, request.method,
                                            request.v2_path)
       IN  /\ audit' = res.audit
           /\ events' = [events EXCEPT ![r] = res.logged]
           /\ req' = [req EXCEPT ![r] = request]
           /\ IF res.code # 0
              THEN /\ resp' = [resp EXCEPT ![r] = [status |-> res.code,
                                                   detail |-> res.detail,
                                                   challenge |-> res.challenge]]
                   /\ pc' = [pc EXCEPT ![r] = "done"]
              ELSE /\ resp' = resp
                   /\ pc' = [pc EXCEPT ![r] = "body"]
    /\ UNCHANGED <<syncVars, gcVars, auditVars, removal, policyVars, contacted, probe, stagingVars>>

\* body = await request.body(); then client.request(...) is issued
ProxySend(r) ==
    /\ pc[r] = "body"
    /\ pc' = [pc EXCEPT ![r] = "upstream"]
    /\ contacted' = [contacted EXCEPT ![r] = TRUE]
    /\ UNCHANGED <<syncVars, gcVars, auditVars, removal, policyVars, audit, req, resp, events, probe, stagingVars>>

UpstreamStatuses == {200, 404}
UpstreamLengths == {0, 7}

\* upstream answered: the audit event, then the response
ProxyReply(r, status, length) ==
    /\ pc[r] = "upstream"
    /\ LET method == req[r].method
           ev == IF method \in _PULL_METHODS
                 THEN <<AuditLog(audit, "registry_pull", status, length)>>
                 ELSE IF method \in _PUSH_METHODS
                 THEN <<AuditLog(audit, "registry_push", status, req[r].body)>>
                 ELSE <<>>
       IN  events' = [events EXCEPT ![r] = events[r] \o ev]
    /\ resp' = [resp EXCEPT ![r] = [status |-> status, detail |-> "",
                                    challenge |-> FALSE]]
    /\ pc' = [pc EXCEPT ![r] = "done"]
    /\ UNCHANGED <<syncVars, gcVars, auditVars, removal, policyVars, audit, req, contacted, probe, stagingVars>>

\* httpx.ConnectError -> 503, httpx.TimeoutException -> 504; nothing is logged
ProxyUpstreamError(r, status) ==
    /\ pc[r] = "upstream"
    /\ status \in {503, 504}
    /\ resp' = [resp EXCEPT ![r] =
                  [status |-> status,
                   detail |-> IF status = 503 THEN "Registry unreachable"
                              ELSE "Registry request timed out",
                   challenge |-> FALSE]]
    /\ pc' = [pc EXCEPT ![r] = "done"]
    /\ UNCHANGED <<syncVars, gcVars, auditVars, removal, policyVars, audit, req, events, contacted, probe, stagingVars>>

\* the response has been sent: the handler is free for the next request
ProxyFinish(r) ==
    /\ pc[r] = "done"
    /\ pc' = [pc EXCEPT ![r] = "idle"]
    /\ req' = [req EXCEPT ![r] = NoRequest]
    /\ resp' = [resp EXCEPT ![r] = NoResponse]
    /\ events' = [events EXCEPT ![r] = <<>>]
    /\ contacted' = [contacted EXCEPT ![r] = FALSE]
    /\ UNCHANGED <<syncVars, gcVars, auditVars, removal, policyVars, audit, probe, stagingVars>>

NoProbe == [stage |-> "none"]

ProxyIdle ==
    /\ audit = NewAuditService
    /\ pc = [r \in Slots |-> "idle"]
    /\ req = [r \in Slots |-> NoRequest]
    /\ resp = [r \in Slots |-> NoResponse]
    /\ events = [r \in Slots |-> <<>>]
    /\ contacted = [r \in Slots |-> FALSE]

\* one request, every policy snapshot
InitProxy ==
    /\ SyncOff
    /\ users \in UserTables
    /\ folders \in FolderTables
    /\ authEnabled \in BOOLEAN
    /\ ProxyIdle
    /\ probe = NoProbe
    /\ StagingOff
    /\ GCOff /\ AuditOff /\ removal = NoRemoval

NextProxy ==
    \/ \E request \in ProxyRequests : ProxyAuthorize(1, request)
    \/ ProxySend(1)
    \/ \E status \in UpstreamStatuses, length \in UpstreamLengths :
          ProxyReply(1, status, length)
    \/ \E status \in {503, 504} : ProxyUpstreamError(1, status)

SpecProxy == InitProxy /\ [][NextProxy]_vars

\* requests one after the other and in flight together, one policy snapshot
ConcRequests ==
    { Request(m, p, h, n[1], n[2], 0) :
        m \in {"GET", "PUT"},
        p \in {<<"prod", "nginx", "manifests", "latest">>, <<"nginx", "manifests", "latest">>},
        h \in {NoHeader, Basic(admin_username, admin_password), Bearer("alice")},
        n \in {<<<<>>, "10.0.0.1">>, <<<<"10.0.0.2", "10.0.0.9">>, "10.0.0.1">>} }

InitProxyConc ==
    /\ SyncOff
    /\ users = <<UserRec("alice", AlicePassword, FALSE, TRUE, FALSE)>>
    /\ folders = <<FolderRec("prod", <<Perm("alice", TRUE, TRUE)>>)>>
    /\ authEnabled = TRUE
    /\ ProxyIdle
    /\ probe = NoProbe
    /\ StagingOff
    /\ GCOff /\ AuditOff /\ removal = NoRemoval

NextProxyConc ==
    \/ \E r \in Slots, request \in ConcRequests : ProxyAuthorize(r, request)
    \/ \E r \in Slots : ProxySend(r)
    \/ \E r \in Slots : ProxyReply(r, 200, 7)
    \/ \E r \in Slots : ProxyUpstreamError(r, 503)
    \/ \E r \in Slots : ProxyFinish(r)

SpecProxyConc == InitProxyConc /\ [][NextProxyConc]_vars

\* one handler, requests one after the other with and without a body, every
\* method of the routes and every answer of upstream
BodyLengths == {0, 5}

AuditedRequests ==
    { Request(m, p, h, <<>>, "10.0.0.1", b) :
        m \in _PULL_METHODS \cup _PUSH_METHODS,
        p \in {<<"prod", "nginx", "manifests", "latest">>, <<"nginx", "blobs", "uploads">>},
        h \in {NoHeader, Basic(admin_username, admin_password), Bearer("alice")},
        b \in BodyLengths }

InitProxyAudit == InitProxyConc

NextProxyAudit ==
    \/ \E request \in AuditedRequests : ProxyAuthorize(1, request)
    \/ ProxySend(1)
    \/ \E status \in UpstreamStatuses, length \in UpstreamLengths :
          ProxyReply(1, status, length)
    \/ \E status \in {503, 504} : ProxyUpstreamError(1, status)
    \/ ProxyFinish(1)

SpecProxyAudit == InitProxyAudit /\ [][NextProxyAudit]_vars

\* ------------------------------------------------------------------------
\* Folder resolution as a function of the v2 path: _extract_image_path, then
\* get_folder_for_path and check_folder_access, applied to one drawn input
\* ------------------------------------------------------------------------
MaxSegs == 4

Segments == {"prod", "nginx", "manifests", "tags", "uploads"}

RECURSIVE PathsOfLen(_)
PathsOfLen(n) ==
    IF n = 0 THEN {<<>>}
    ELSE {Append(p, s) : p \in PathsOfLen(n - 1), s \in Segments}

V2Paths == UNION {PathsOfLen(n) : n \in 0..MaxSegs}

InitFolders ==
    /\ SyncOff
    /\ users \in {<<UserRec("alice", AlicePassword, FALSE, TRUE, FALSE)>>}
    /\ folders \in FolderTables
    /\ authEnabled = TRUE
    /\ ProxyIdle
    /\ probe \in [stage : {"in"}, v2_path : V2Paths, username : {"alice"},
                  is_pull : BOOLEAN]
    /\ StagingOff
    /\ GCOff /\ AuditOff /\ removal = NoRemoval

ResolveFolder ==
    /\ probe.stage = "in"
    /\ LET image_path == _extract_image_path(probe.v2_path)
       IN  probe' = [ stage |-> "out", v2_path |-> probe.v2_path,
                      username |-> probe.username, is_pull |-> probe.is_pull,
                      image_path |-> image_path,
                      folder |-> get_folder_for_path(image_path),
                      access |-> check_folder_access(probe.username, image_path,
                                                     probe.is_pull) ]
    /\ UNCHANGED <<syncVars, gcVars, auditVars, removal, policyVars, proxyVars, stagingVars>>

NextFolders == ResolveFolder

SpecFolders == InitFolders /\ [][NextFolders]_vars

\* ------------------------------------------------------------------------
\* staging.py: the job table, the endpoints and the two pipelines
\* ------------------------------------------------------------------------
\* _jobs[job_id]["status"] = value (and "progress"), recorded in statusLog
SetStatus(j, value, progress) ==
    /\ jobs' = [jobs EXCEPT ![j].status = value, ![j].progress = progress]
    /\ statusLog' = [statusLog EXCEPT ![j] = <<jobs[j].status, value>>]

\* the except block of both pipelines
SetFailed(j) ==
    /\ jobs' = [jobs EXCEPT ![j].status = "failed", ![j].progress = 100, ![j].error = TRUE]
    /\ statusLog' = [statusLog EXCEPT ![j] = <<jobs[j].status, "failed">>]

\* POST /pull
pull_image(j, clamav_override, vuln_override) ==
    /\ j \notin issued
    /\ issued' = issued \cup {j}
    /\ jobs' = [k \in DOMAIN jobs \cup {j} |->
                  IF k = j
                  THEN [ status |-> "pending", progress |-> 0, error |-> FALSE,
                         target |-> FALSE,
                         clamav_enabled_override |-> clamav_override,
                         vuln_scan_enabled_override |-> vuln_override ]
                  ELSE jobs[k]]
    /\ statusLog' = [statusLog EXCEPT ![j] = <<"pending">>]
    /\ pullTask' = [pullTask EXCEPT ![j] = [ pc |-> "queued",
                                             clamav_override |-> clamav_override,
                                             vuln_override |-> vuln_override ]]
    /\ api' = [op |-> "pull", job |-> j, code |-> 200]
    /\ UNCHANGED <<syncVars, gcVars, auditVars, removal, policyVars, proxyVars, probe, strays, settings, tarballs, pushTasks>>

PullAt(j, where) == pullTask[j].pc = where

PullGoto(j, where) == pullTask' = [pullTask EXCEPT ![j].pc = where]

\* faulty variant: the except block assigns with _jobs.setdefault(job_id, {})
PullCrash_Recreates(j, wrote) ==
    /\ pullTask[j].pc \notin {"none", "ended"}
    /\ j \notin DOMAIN jobs
    /\ wrote => pullTask[j].pc = "save"
    /\ tarballs' = IF wrote THEN tarballs \cup {j} ELSE tarballs
    /\ jobs' = [k \in DOMAIN jobs \cup {j} |->
                  IF k = j
                  THEN [ status |-> "failed", progress |-> 100, error |-> TRUE,
                         target |-> FALSE, clamav_enabled_override |-> None,
                         vuln_scan_enabled_override |-> None ]
                  ELSE jobs[k]]
    /\ pullTask' = [pullTask EXCEPT ![j].pc = "ended"]
    /\ UNCHANGED <<syncVars, gcVars, auditVars, removal, policyVars, proxyVars, probe, strays, settings, issued,
                   pushTasks, statusLog, api>>

\* _jobs[job_id] raises KeyError once the job was deleted; in the try block the
\* except block raises it again: the task ends and has changed nothing of the
\* table.  wrote: the job was deleted while docker save ran, and docker save
\* has written the tarball before the next statement raised
PullCrash(j, wrote) ==
    /\ pullTask[j].pc \notin {"none", "ended"}
    /\ j \notin DOMAIN jobs
    /\ wrote => PullAt(j, "save")
    /\ tarballs' = IF wrote THEN tarballs \cup {j} ELSE tarballs
    /\ PullGoto(j, "ended")
    /\ UNCHANGED <<syncVars, gcVars, auditVars, removal, policyVars, proxyVars, probe, strays, settings, jobs, issued,
                   pushTasks, statusLog, api>>

\* run_pull_pipeline up to the first await (docker login / docker pull)
PullStart(j) ==
    /\ PullAt(j, "queued")
    /\ j \in DOMAIN jobs
    /\ SetStatus(j, "pulling", 10)
    /\ PullGoto(j, "pull")
    /\ UNCHANGED <<syncVars, gcVars, auditVars, removal, policyVars, proxyVars, probe, strays, settings, tarballs, issued, pushTasks, api>>

\* the statuses assigned after ClamAV passed or was skipped, up to the await of the
\* vulnerability scan or to the end of the pipeline
AfterClamav(j, prefix) ==
    IF _effective_vuln(pullTask[j].vuln_override)
    THEN /\ jobs' = [jobs EXCEPT ![j].status = "vuln_scanning", ![j].progress = 85]
         /\ statusLog' = [statusLog EXCEPT ![j] =
                             <<jobs[j].status>> \o prefix \o <<"vuln_scanning">>]
         /\ PullGoto(j, "vuln")
    ELSE /\ jobs' = [jobs EXCEPT ![j].status = "scan_clean", ![j].progress = 100]
         /\ statusLog' = [statusLog EXCEPT ![j] =
                             <<jobs[j].status>> \o prefix \o <<"scan_clean">>]
         /\ PullGoto(j, "ended")

\* faulty variant: SCAN_SKIPPED is not assigned when ClamAV is disabled
ClamavSkipped_NotAssigned(j) == AfterClamav(j, <<>>)

\* the else branch of "if do_clamav": SCAN_SKIPPED, then on without an await
ClamavSkipped(j) == AfterClamav(j, <<"scan_skipped">>)

\* docker pull returned (ok) or failed / raised (~ok)
PullPulled(j, ok) ==
    /\ PullAt(j, "pull")
    /\ j \in DOMAIN jobs
    /\ IF ~ok
       THEN SetFailed(j) /\ PullGoto(j, "ended")
       ELSE IF \/ _effective_clamav(pullTask[j].clamav_override)
               \/ _effective_vuln(pullTask[j].vuln_override)
            THEN /\ jobs' = [jobs EXCEPT ![j].progress = 50]
                 /\ PullGoto(j, "save")
                 /\ UNCHANGED statusLog
            ELSE ClamavSkipped(j)
    /\ UNCHANGED <<syncVars, gcVars, auditVars, removal, policyVars, proxyVars, probe, strays, settings, tarballs, issued, pushTasks, api>>

\* docker save returned: its return code is not looked at ("saved": the tarball
\* was written); "raise": create_subprocess_exec raised
PullSaved(j, outcome) ==
    /\ PullAt(j, "save")
    /\ j \in DOMAIN jobs
    /\ outcome \in {"saved", "nofile", "raise"}
    /\ tarballs' = IF outcome = "saved" THEN tarballs \cup {j} ELSE tarballs
    /\ IF outcome = "raise"
       THEN SetFailed(j) /\ PullGoto(j, "ended")
       ELSE IF _effective_clamav(pullTask[j].clamav_override)
            THEN SetStatus(j, "scanning", 70) /\ PullGoto(j, "clamav")
            ELSE ClamavSkipped(j)
    /\ UNCHANGED <<syncVars, gcVars, auditVars, removal, policyVars, proxyVars, probe, strays, settings, issued, pushTasks, api>>

\* _clamav_scan returned (it catches every exception)
PullClamav(j, infected) ==
    /\ PullAt(j, "clamav")
    /\ j \in DOMAIN jobs
    /\ IF infected
       THEN /\ SetStatus(j, "scan_infected", 100)
            /\ tarballs' = tarballs \ {j}
            /\ PullGoto(j, "ended")
       ELSE /\ AfterClamav(j, <<>>)
            /\ UNCHANGED tarballs
    /\ UNCHANGED <<syncVars, gcVars, auditVars, removal, policyVars, proxyVars, probe, strays, settings, issued, pushTasks, api>>

\* _vuln_scan_image returned a summary ("clean", "blocked") or raised
PullVuln(j, outcome) ==
    /\ PullAt(j, "vuln")
    /\ j \in DOMAIN jobs
    /\ outcome \in {"clean", "blocked", "raise"}
    /\ IF outcome = "raise" THEN SetFailed(j) /\ UNCHANGED tarballs
       ELSE IF outcome = "blocked"
       THEN SetStatus(j, "scan_vulnerable", 100) /\ tarballs' = tarballs \ {j}
       ELSE SetStatus(j, "scan_clean", 100) /\ UNCHANGED tarballs
    /\ PullGoto(j, "ended")
    /\ UNCHANGED <<syncVars, gcVars, auditVars, removal, policyVars, proxyVars, probe, strays, settings, issued, pushTasks, api>>

\* faulty variant: a job whose scan found blocking vulnerabilities can be pushed
PushableStatuses_Vulnerable == {"scan_clean", "scan_skipped", "scan_vulnerable"}

\* the statuses in which POST /push starts the push pipeline
PushableStatuses == {"scan_clean", "scan_skipped"}

\* the users whose token a staging request can carry
Callers == {admin_username, "alice"}

\* POST /push by the user of a valid token (Depends(get_current_user))
push_image(j, username) ==
    /\ IF j \notin DOMAIN jobs
       THEN /\ api' = [op |-> "push", job |-> j, code |-> 404, caller |-> username]
            /\ UNCHANGED pushTasks
       ELSE IF jobs[j].status \notin PushableStatuses
       THEN /\ api' = [op |-> "push", job |-> j, code |-> 400, caller |-> username]
            /\ UNCHANGED pushTasks
       ELSE /\ \E k \in 1..MaxPushes :
                  /\ pushTasks[j][k].pc = "none"
                  /\ \A i \in 1..(k - 1) : pushTasks[j][i].pc # "none"
                  /\ pushTasks' = [pushTasks EXCEPT ![j][k].pc = "queued"]
            /\ api' = [op |-> "push", job |-> j, code |-> 200, caller |-> username]
    /\ UNCHANGED <<syncVars, gcVars, auditVars, removal, policyVars, proxyVars, probe, strays, settings, jobs, tarballs, issued,
                   pullTask, statusLog>>

\* external_registries.py, POST /push (Depends(require_push_access)): the job
\* record is read, never written.  oci_dir: os.path.isdir({staging_dir}/{job_id});
\* pushed: skopeo_push succeeded
push_to_external(j, username, oci_dir, pushed) ==
    /\ api' = [ op |-> "push_external", job |-> j, caller |-> username,
                code |-> IF ~require_push_access(get_current_user(username)) THEN 403
                         ELSE IF ~oci_dir \/ j \notin DOMAIN jobs THEN 404
                         ELSE IF pushed THEN 200 ELSE 500 ]
    /\ UNCHANGED <<syncVars, gcVars, auditVars, removal, policyVars, proxyVars, probe, strays, settings,
                   jobs, tarballs, issued, pullTask, pushTasks, statusLog>>

PushAt(j, k, where) == pushTasks[j][k].pc = where

PushGoto(j, k, where) == pushTasks' = [pushTasks EXCEPT ![j][k].pc = where]

PushCrash(j, k) ==
    /\ pushTasks[j][k].pc \notin {"none", "ended"}
    /\ j \notin DOMAIN jobs
    /\ PushGoto(j, k, "ended")
    /\ UNCHANGED <<syncVars, gcVars, auditVars, removal, policyVars, proxyVars, probe, strays, settings, jobs, tarballs, issued,
                   pullTask, statusLog, api>>

\* run_push_pipeline up to the first await (docker tag)
PushStart(j, k) ==
    /\ PushAt(j, k, "queued")
    /\ j \in DOMAIN jobs
    /\ SetStatus(j, "pushing", 10)
    /\ PushGoto(j, k, "tag")
    /\ UNCHANGED <<syncVars, gcVars, auditVars, removal, policyVars, proxyVars, probe, strays, settings, tarballs, issued, pullTask, api>>

\* docker tag returned
PushTagged(j, k, ok) ==
    /\ PushAt(j, k, "tag")
    /\ j \in DOMAIN jobs
    /\ IF ok
       THEN /\ jobs' = [jobs EXCEPT ![j].progress = 40]
            /\ PushGoto(j, k, "push")
            /\ UNCHANGED statusLog
       ELSE SetFailed(j) /\ PushGoto(j, k, "ended")
    /\ UNCHANGED <<syncVars, gcVars, auditVars, removal, policyVars, proxyVars, probe, strays, settings, tarballs, issued, pullTask, api>>

\* docker push returned
PushPushed(j, k, ok) ==
    /\ PushAt(j, k, "push")
    /\ j \in DOMAIN jobs
    /\ IF ok
       THEN /\ jobs' = [jobs EXCEPT ![j].progress = 80]
            /\ PushGoto(j, k, "cleanup")
            /\ UNCHANGED statusLog
       ELSE SetFailed(j) /\ PushGoto(j, k, "ended")
    /\ UNCHANGED <<syncVars, gcVars, auditVars, removal, policyVars, proxyVars, probe, strays, settings, tarballs, issued, pullTask, api>>

\* the two docker rmi were started (ok) or create_subprocess_exec raised
PushCleaned(j, k, ok) ==
    /\ PushAt(j, k, "cleanup")
    /\ j \in DOMAIN jobs
    /\ IF ok
       THEN /\ tarballs' = tarballs \ {j}
            /\ jobs' = [jobs EXCEPT ![j].status = "done", ![j].progress = 100,
                                    ![j].target = TRUE]
            /\ statusLog' = [statusLog EXCEPT ![j] = <<jobs[j].status, "done">>]
       ELSE SetFailed(j) /\ UNCHANGED tarballs
    /\ PushGoto(j, k, "ended")
    /\ UNCHANGED <<syncVars, gcVars, auditVars, removal, policyVars, proxyVars, probe, strays, settings, issued, pullTask, api>>

\* faulty variant: the whole table is emptied
delete_job_ClearsTable(j) ==
    /\ IF j \notin DOMAIN jobs
       THEN /\ api' = [op |-> "delete", job |-> j, code |-> 404]
            /\ UNCHANGED <<jobs, tarballs>>
       ELSE /\ tarballs' = tarballs \ {j}
            /\ jobs' = <<>>
            /\ api' = [op |-> "delete", job |-> j, code |-> 200]
    /\ UNCHANGED <<syncVars, gcVars, auditVars, removal, policyVars, proxyVars, probe, strays, settings, issued, pullTask, pushTasks,
                   statusLog>>

\* DELETE /jobs/{job_id}
delete_job(j) ==
    /\ IF j \notin DOMAIN jobs
       THEN /\ api' = [op |-> "delete", job |-> j, code |-> 404]
            /\ UNCHANGED <<jobs, tarballs>>
       ELSE /\ tarballs' = tarballs \ {j}
            /\ jobs' = [k \in DOMAIN jobs \ {j} |-> jobs[k]]
            /\ api' = [op |-> "delete", job |-> j, code |-> 200]
    /\ UNCHANGED <<syncVars, gcVars, auditVars, removal, policyVars, proxyVars, probe, strays, settings, issued, pullTask, pushTasks,
                   statusLog>>

InitStaging ==
    /\ SyncOff
    /\ users = <<UserRec("alice", AlicePassword, FALSE, TRUE, FALSE)>>
    /\ folders = <<>>
    /\ authEnabled = TRUE
    /\ ProxyIdle
    /\ probe = NoProbe
    /\ settings \in [clamav_enabled : BOOLEAN, vuln_scan_enabled : BOOLEAN]
    /\ StagingIdle
    /\ GCOff /\ AuditOff /\ removal = NoRemoval

NextStaging ==
    \/ \E j \in OneJob, c \in Overrides, v \in Overrides : pull_image(j, c, v)
    \/ \E j \in OneJob : PullStart(j)
    \/ \E j \in OneJob, ok \in BOOLEAN : PullPulled(j, ok)
    \/ \E j \in OneJob, outcome \in {"saved", "nofile", "raise"} : PullSaved(j, outcome)
    \/ \E j \in OneJob, infected \in BOOLEAN : PullClamav(j, infected)
    \/ \E j \in OneJob, outcome \in {"clean", "blocked", "raise"} : PullVuln(j, outcome)
    \/ \E j \in OneJob, wrote \in BOOLEAN : PullCrash(j, wrote)
    \/ \E j \in OneJob, username \in Callers : push_image(j, username)
    \/ \E j \in OneJob, username \in Callers, oci_dir \in BOOLEAN, pushed \in BOOLEAN :
          push_to_external(j, username, oci_dir, pushed)
    \/ \E j \in OneJob, k \in 1..MaxPushes : PushStart(j, k)
    \/ \E j \in OneJob, k \in 1..MaxPushes, ok \in BOOLEAN : PushTagged(j, k, ok)
    \/ \E j \in OneJob, k \in 1..MaxPushes, ok \in BOOLEAN : PushPushed(j, k, ok)
    \/ \E j \in OneJob, k \in 1..MaxPushes, ok \in BOOLEAN : PushCleaned(j, k, ok)
    \/ \E j \in OneJob, k \in 1..MaxPushes : PushCrash(j, k)
    \/ \E j \in OneJob : delete_job(j)

SpecStaging == InitStaging /\ [][NextStaging]_vars

\* ------------------------------------------------------------------------
\* staging.py: the vulnerability scan of the pull pipeline, with the trivy run
\* and the severities of the job as inputs
\* ------------------------------------------------------------------------
MaxFindings == 2            \* vulnerabilities in one trivy report
MaxSeverities == 2          \* entries of the comma-separated severity list

\* str.upper() on the strings of the model
Upper(str) ==
    CASE str = "critical" -> "CRITICAL"
      [] str = "high" -> "HIGH"
      [] str = "low" -> "LOW"
      [] OTHER -> str

RECURSIVE SeqsUpTo(_, _)
SeqsUpTo(S, n) ==
    IF n = 0 THEN {<<>>}
    ELSE SeqsUpTo(S, n - 1) \cup
         {Append(q, x) : q \in {r \in SeqsUpTo(S, n - 1) : Len(r) = n - 1}, x \in S}

\* the entries of vuln_severities_override / settings.vuln_scan_severities
\* after split(",") and strip()
SeverityLists == SeqsUpTo({"CRITICAL", "high", "LOW"}, MaxSeverities)

\* [s.strip().upper() for s in raw.split(",") if s.strip()]
_effective_severities(raw) == [i \in 1..Len(raw) |-> Upper(raw[i])]

\* the "Severity" of the vulnerabilities of a report; None: the key is absent
Reports == SeqsUpTo({"CRITICAL", "HIGH", "low", None}, MaxFindings)

\* proc.returncode of trivy
ReturnCodes == {0, 1, 2}

\* one run of trivy: started (no FileNotFoundError), its return code, stdout
\* is JSON (parsed), and the vulnerabilities of the report
TrivyRuns ==
    [started : BOOLEAN, returncode : ReturnCodes, parsed : BOOLEAN, report : Reports]

\* sev = (vuln.get("Severity") or "UNKNOWN").upper()
SevOf(vuln) == IF vuln = None THEN "UNKNOWN" ELSE Upper(vuln)

\* counts after the two loops over the report
Counts(report) ==
    [ sev \in {"CRITICAL", "HIGH", "MEDIUM", "LOW", "UNKNOWN"}
              \cup {SevOf(report[i]) : i \in 1..Len(report)} |->
        Cardinality({i \in 1..Len(report) : SevOf(report[i]) = sev}) ]

\* counts.get(sev, 0)
CountGet(counts, sev) == IF sev \in DOMAIN counts THEN counts[sev] ELSE 0

Raised == [raised |-> TRUE]

\* faulty variant: every vulnerability of the report blocks, requested or not
_vuln_scan_image_AnyFinding(severities, run) ==
    IF ~run.started \/ run.returncode # 0 \/ ~run.parsed THEN Raised
    ELSE [ raised |-> FALSE,
           blocked |-> Len(run.report) > 0,
           severities |-> severities,
           counts |-> Counts(run.report) ]

\* _vuln_scan_image: the summary returned, or Raised
_vuln_scan_image(severities, run) ==
    IF ~run.started \/ run.returncode # 0 \/ ~run.parsed THEN Raised
    ELSE LET counts == Counts(run.report)
         IN  [ raised |-> FALSE,
               blocked |-> \E i \in 1..Len(severities) :
                              CountGet(counts, severities[i]) > 0,
               severities |-> severities,
               counts |-> counts ]

\* the step PullVuln with the summary computed from the trivy run; raw: the
\* severity list of the job, read when the pipeline starts
PullVulnScan(j, raw, run) ==
    /\ PullAt(j, "vuln")
    /\ j \in DOMAIN jobs
    /\ LET vuln_summary == _vuln_scan_image(_effective_severities(raw), run)
       IN  /\ IF vuln_summary.raised THEN SetFailed(j) /\ UNCHANGED tarballs
              ELSE IF vuln_summary.blocked
              THEN SetStatus(j, "scan_vulnerable", 100) /\ tarballs' = tarballs \ {j}
              ELSE SetStatus(j, "scan_clean", 100) /\ UNCHANGED tarballs
           /\ pullTask' = [pullTask EXCEPT ![j] =
                              [ pc |-> "ended", raw |-> raw, run |-> run,
                                vuln_summary |-> vuln_summary ]]
    /\ UNCHANGED <<syncVars, gcVars, auditVars, removal, policyVars, proxyVars, probe,
                   strays, settings, issued, pushTasks, api>>

InitScan ==
    /\ InitStaging
    /\ settings.vuln_scan_enabled

NextScan ==
    \/ \E j \in OneJob : pull_image(j, None, None)
    \/ \E j \in OneJob : PullStart(j)
    \/ \E j \in OneJob, ok \in BOOLEAN : PullPulled(j, ok)
    \/ \E j \in OneJob, outcome \in {"saved", "nofile", "raise"} : PullSaved(j, outcome)
    \/ \E j \in OneJob, infected \in BOOLEAN : PullClamav(j, infected)
    \/ \E j \in OneJob :
          /\ PullAt(j, "vuln")
          /\ \E raw \in SeverityLists, run \in TrivyRuns : PullVulnScan(j, raw, run)

SpecScan == InitScan /\ [][NextScan]_vars

\* ------------------------------------------------------------------------
\* The paths removed by the purges: purge_empty_repositories and
\* _cleanup_ghosts_from_gc_error (registry.py), delete_job and
\* purge_orphan_tarballs (staging.py).  A path is the sequence of its segments.
\* ------------------------------------------------------------------------
MaxPathLen == 3

\* /var/lib/registry and, below it, /docker/registry/v2/repositories
RegistryDir == <<"var", "lib", "registry">>
RepositoriesDir == <<"docker", "registry", "v2", "repositories">>
RepositoriesRoot == RegistryDir \o RepositoriesDir

\* settings.staging_dir
StagingRoot == <<"tmp", "staging">>

\* the path the kernel resolves: ".." leaves the directory reached so far
RECURSIVE Resolve(_, _)
Resolve(reached, rest) ==
    IF rest = <<>> THEN reached
    ELSE IF Head(rest) = ".."
         THEN Resolve(IF reached = <<>> THEN <<>>
                      ELSE SubSeq(reached, 1, Len(reached) - 1), Tail(rest))
         ELSE Resolve(Append(reached, Head(rest)), Tail(rest))

\* os.path.realpath (no symbolic link in the model)
realpath(path) == Resolve(<<>>, path)

\* rm -rf path: rm refuses a path whose last component is "..", and removes
\* the directory the path resolves to otherwise
RmRf(path) ==
    IF path # <<>> /\ path[Len(path)] = ".." THEN {} ELSE {realpath(path)}

\* purge_empty_repositories, for one repository name of the catalog:
\* rm -rf /var/lib/registry/docker/registry/v2/repositories/{repo}
PurgeRepositoryRemoves(repo) == RmRf(RepositoriesRoot \o repo)

\* re.findall(r"Path not found: (/docker/registry/v2/repositories/[^\s]+/_layers)")
\* on a line "Path not found: /docker/registry/v2/repositories/<tail>": the
\* greedy [^\s]+ takes at least one character and ends before the last
\* "/_layers"; <<>> when the line does not match
GhostPath(tail) ==
    LET ends == {i \in 2..Len(tail) : tail[i] = "_layers"}
    IN  IF ends = {} THEN <<>>
        ELSE RepositoriesDir \o SubSeq(tail, 1, CHOOSE i \in ends : \A k \in ends : k <= i)

\* _cleanup_ghosts_from_gc_error for one matching line:
\* repo_path = ghost_path.rsplit("/_layers", 1)[0]; rm -rf /var/lib/registry{repo_path}
CleanupGhostRemoves(tail) ==
    IF GhostPath(tail) = <<>> THEN {}
    ELSE RmRf(RegistryDir \o SubSeq(GhostPath(tail), 1, Len(GhostPath(tail)) - 1))

\* the file names of the model: f"{job_id}.tar" and fname[:-4]
TarOf(job_id) ==
    CASE job_id = "j1" -> "j1.tar"
      [] job_id = "j2" -> "j2.tar"
      [] job_id = "notes" -> "notes.tar"
      [] OTHER -> "other.tar"

StemOf(fname) ==
    CASE fname = "j1.tar" -> "j1"
      [] fname = "j2.tar" -> "j2"
      [] fname = "notes.tar" -> "notes"
      [] OTHER -> "other"

\* uuid.UUID(job_id) does not raise
IsUUID(job_id) == job_id \in JobIds

\* delete_job with the job_id of the URL (a string that may hold "/"): the file
\* removed, none when the request is refused
DeleteJobRemoves(job_id) ==
    IF Len(job_id) # 1 \/ job_id[1] \notin DOMAIN jobs THEN {}       \* 404
    ELSE IF ~IsUUID(job_id[1]) THEN {}                                 \* 400
    ELSE LET staging_root == realpath(StagingRoot)
             tarball_path == realpath(staging_root \o <<TarOf(job_id[1])>>)
         IN  IF \/ Len(tarball_path) < Len(staging_root)
                \/ SubSeq(tarball_path, 1, Len(staging_root)) # staging_root
             THEN {}                                                   \* 400
             ELSE {tarball_path}

\* purge_orphan_tarballs for one name returned by os.listdir(staging_dir)
PurgeOrphanRemoves(fname) ==
    IF fname \notin {"j1.tar", "j2.tar", "notes.tar"} THEN {}          \* not *.tar
    ELSE IF IsUUID(StemOf(fname)) /\ StemOf(fname) \in DOMAIN jobs THEN {}
    ELSE {StagingRoot \o <<fname>>}

PathSegments == {"a", "..", "_layers", "j1", "blobs"}

RECURSIVE SegmentsOfLen(_)
SegmentsOfLen(n) ==
    IF n = 0 THEN {<<>>}
    ELSE {Append(q, sg) : q \in SegmentsOfLen(n - 1), sg \in PathSegments}

\* repository names, job ids and "Path not found" lines given as input
PathInputs == UNION {SegmentsOfLen(n) : n \in 1..MaxPathLen}

\* the names os.listdir returns: one segment, never "." or ".."
DirEntries == {"j1.tar", "j2.tar", "notes.tar", "readme.txt"}

StagedJob ==
    [ status |-> "scan_clean", progress |-> 100, error |-> FALSE, target |-> FALSE,
      clamav_enabled_override |-> None, vuln_scan_enabled_override |-> None ]

InitPaths ==
    /\ SyncOff
    /\ users = <<>>
    /\ folders = <<>>
    /\ authEnabled = TRUE
    /\ ProxyIdle
    /\ probe = NoProbe
    /\ settings = [clamav_enabled |-> FALSE, vuln_scan_enabled |-> TRUE]
    /\ jobs = [j \in {"j1"} |-> StagedJob]
    /\ tarballs = {"j1"}
    /\ strays = {}
    /\ issued = {"j1"}
    /\ pullTask = [j \in JobIds |-> IF j = "j1" THEN [pc |-> "ended"] ELSE NoTask]
    /\ pushTasks = [j \in JobIds |-> [k \in 1..MaxPushes |-> NoTask]]
    /\ statusLog = [j \in JobIds |-> <<>>]
    /\ api = [op |-> "none"]
    /\ GCOff /\ AuditOff
    /\ \/ removal \in [stage : {"in"}, kind : {"name"}, arg : PathInputs]
       \/ removal \in [stage : {"in"}, kind : {"entry"}, arg : DirEntries]

Removed(op, root, paths) ==
    /\ removal' = [ stage |-> "out", kind |-> removal.kind, op |-> op,
                    arg |-> removal.arg, root |-> root, removed |-> paths ]
    /\ UNCHANGED <<syncVars, gcVars, auditVars, policyVars, proxyVars, probe, stagingVars>>

PurgeRepository ==
    /\ removal.stage = "in" /\ removal.kind = "name"
    /\ Removed("purge_empty_repositories", RepositoriesRoot,
               PurgeRepositoryRemoves(removal.arg))

CleanupGhost ==
    /\ removal.stage = "in" /\ removal.kind = "name"
    /\ Removed("_cleanup_ghosts_from_gc_error", RepositoriesRoot,
               CleanupGhostRemoves(removal.arg))

DeleteJobFile ==
    /\ removal.stage = "in" /\ removal.kind = "name"
    /\ Removed("delete_job", StagingRoot, DeleteJobRemoves(removal.arg))

PurgeOrphan ==
    /\ removal.stage = "in" /\ removal.kind = "entry"
    /\ Removed("purge_orphan_tarballs", StagingRoot, PurgeOrphanRemoves(removal.arg))

NextPaths == PurgeRepository \/ CleanupGhost \/ DeleteJobFile \/ PurgeOrphan

SpecPaths == InitPaths /\ [][NextPaths]_vars

\* ------------------------------------------------------------------------
\* staging.py: the orphan endpoints, beside one job and its pull pipeline
\* ------------------------------------------------------------------------
\* entries of the staging directory that are not "<uuid>.tar": a tarball with
\* another name, a plain file, and the directory {staging_dir}/{job_id} that
\* push_to_external reads, left by a job that is no longer in the table
StrayEntries == {"notes.tar", "readme.txt", "j2"}

\* os.listdir(staging_dir)
Listing == {TarOf(j) : j \in tarballs} \cup strays

\* the names for which is_orphan is True
Orphans == {fname \in Listing : PurgeOrphanRemoves(fname) # {}}

\* the names for which os.remove can raise OSError during one call
FailSets == {{}} \cup {{fname} : fname \in {"j2.tar", "notes.tar"}}

\* GET /orphan-tarballs
list_orphan_tarballs ==
    /\ api' = [op |-> "list_orphans", files |-> Orphans]
    /\ UNCHANGED <<syncVars, gcVars, auditVars, removal, policyVars, proxyVars, probe,
                   settings, jobs, tarballs, strays, issued, pullTask, pushTasks, statusLog>>

\* faulty variant: the loop stops after the first file it removed
Deleted_OnePerCall(orphans, failing) ==
    IF orphans \ failing = {} THEN {}
    ELSE {CHOOSE fname \in orphans \ failing : TRUE}

\* the list "deleted": the orphans whose os.remove did not raise
Deleted(orphans, failing) == orphans \ failing

\* POST /orphan-tarballs/purge; the loop has no await.  entries: the staging
\* directory as the call left it
purge_orphan_tarballs(failing) ==
    LET deleted == Deleted(Orphans, failing)
    IN  /\ tarballs' = {j \in tarballs : TarOf(j) \notin deleted}
        /\ strays' = strays \ deleted
        /\ api' = [ op |-> "purge", deleted |-> deleted,
                    errors |-> Orphans \cap failing,
                    entries |-> Listing \ deleted ]
        /\ UNCHANGED <<syncVars, gcVars, auditVars, removal, policyVars, proxyVars, probe,
                       settings, jobs, issued, pullTask, pushTasks, statusLog>>

\* the table is empty when the process starts; the staging directory holds what
\* earlier processes left
InitOrphans ==
    /\ SyncOff
    /\ users = <<UserRec("alice", AlicePassword, FALSE, TRUE, FALSE)>>
    /\ folders = <<>>
    /\ authEnabled = TRUE
    /\ ProxyIdle
    /\ probe = NoProbe
    /\ settings = [clamav_enabled |-> FALSE, vuln_scan_enabled |-> TRUE]
    /\ jobs = <<>>
    /\ tarballs \in SUBSET {"j2"}
    /\ strays \in SUBSET StrayEntries
    /\ issued = {}
    /\ pullTask = [j \in JobIds |-> NoTask]
    /\ pushTasks = [j \in JobIds |-> [k \in 1..MaxPushes |-> NoTask]]
    /\ statusLog = [j \in JobIds |-> <<>>]
    /\ api = [op |-> "none"]
    /\ GCOff /\ AuditOff /\ removal = NoRemoval

NextOrphans ==
    \/ \E j \in OneJob : pull_image(j, None, None)
    \/ \E j \in OneJob : PullStart(j)
    \/ \E j \in OneJob, ok \in BOOLEAN : PullPulled(j, ok)
    \/ \E j \in OneJob, outcome \in {"saved", "nofile", "raise"} : PullSaved(j, outcome)
    \/ \E j \in OneJob, outcome \in {"clean", "blocked", "raise"} : PullVuln(j, outcome)
    \/ \E j \in OneJob, wrote \in BOOLEAN : PullCrash(j, wrote)
    \/ \E j \in OneJob : delete_job(j)
    \/ list_orphan_tarballs
    \/ \E failing \in FailSets : purge_orphan_tarballs(failing)

SpecOrphans == InitOrphans /\ [][NextOrphans]_vars

\* ------------------------------------------------------------------------
\* staging.py, external_registries.py: the endpoints that take a job_id, with
\* the job_id of the request any string
\* ------------------------------------------------------------------------
\* the job_id values of a request: the ids uuid4 can draw and a string that
\* uuid.UUID refuses
RequestIds == JobIds \cup {"notes"}

\* GET /jobs/{job_id}
get_job_status(job_id) ==
    /\ api' = [ op |-> "status", job |-> job_id,
                code |-> IF job_id \notin DOMAIN jobs THEN 404 ELSE 200 ]
    /\ UNCHANGED <<syncVars, gcVars, auditVars, removal, policyVars, proxyVars, probe,
                   settings, jobs, tarballs, strays, issued, pullTask, pushTasks, statusLog>>

NextJobIds ==
    \/ NextStaging
    \/ \E job_id \in RequestIds : get_job_status(job_id)
    \/ \E job_id \in RequestIds \ OneJob, username \in Callers : push_image(job_id, username)
    \/ \E job_id \in RequestIds \ OneJob : delete_job(job_id)
    \/ \E job_id \in RequestIds \ OneJob, username \in Callers, oci_dir \in BOOLEAN :
          push_to_external(job_id, username, oci_dir, TRUE)

\* both scans enabled in the settings, so that every step of the pipelines occurs
InitJobIds ==
    /\ InitStaging
    /\ settings = [clamav_enabled |-> TRUE, vuln_scan_enabled |-> TRUE]

SpecJobIds == InitJobIds /\ [][NextJobIds]_vars

\* ------------------------------------------------------------------------
\* staging.py: two jobs side by side, each with its pull pipeline and one
\* push pipeline
\* ------------------------------------------------------------------------
\* the requests and the pipeline steps that name the job j
JobStep(j) ==
    \/ pull_image(j, None, None)
    \/ PullStart(j)
    \/ \E ok \in BOOLEAN : PullPulled(j, ok)
    \/ \E outcome \in {"saved", "nofile", "raise"} : PullSaved(j, outcome)
    \/ \E outcome \in {"clean", "blocked", "raise"} : PullVuln(j, outcome)
    \/ \E wrote \in BOOLEAN : PullCrash(j, wrote)
    \/ push_image(j, admin_username) /\ pushTasks'[j][2].pc = "none"
    \/ PushStart(j, 1)
    \/ \E ok \in BOOLEAN : PushTagged(j, 1, ok)
    \/ \E ok \in BOOLEAN : PushPushed(j, 1, ok)
    \/ \E ok \in BOOLEAN : PushCleaned(j, 1, ok)
    \/ PushCrash(j, 1)
    \/ delete_job(j)

InitTwoJobs ==
    /\ InitStaging
    /\ settings = [clamav_enabled |-> FALSE, vuln_scan_enabled |-> TRUE]

NextTwoJobs == \E j \in JobIds : JobStep(j)

SpecTwoJobs == InitTwoJobs /\ [][NextTwoJobs]_vars

\* ------------------------------------------------------------------------
\* Garbage collection: POST /api/registry/gc (registry.py: start_garbage_collect,
\* _run_gc) and POST /api/system/gc (system.py: garbage_collect,
\* process_manager.py: run_registry_garbage_collect)
\*   gcTasks[k], sysTasks[k]: pc, and sup = the last request the run made to
\*   supervisord ("none", "stop", "start", "start_failed")
\* ------------------------------------------------------------------------
otherVars == <<gcDisk, syncVars, auditVars, removal, policyVars, proxyVars, probe, stagingVars>>

\* POST /api/registry/gc
start_garbage_collect ==
    /\ IF gc.status = "running"
       THEN /\ gcApi' = [op |-> "start", code |-> 409]
            /\ UNCHANGED gcTasks
       ELSE /\ \E k \in 1..MaxGCRuns :
                  /\ gcTasks[k].pc = "none"
                  /\ \A i \in 1..(k - 1) : gcTasks[i].pc # "none"
                  /\ gcTasks' = [gcTasks EXCEPT ![k].pc = "queued"]
            /\ gcApi' = [op |-> "start", code |-> 200]
    /\ UNCHANGED <<gc, sysTasks, gcLock, supervisor, gcExec, otherVars>>

\* a garbage-collect command starts: the state of the registry process is noted
Exec(run, attempt) ==
    gcExec' = [run |-> run, attempt |-> attempt, registry |-> supervisor]

\* the end of _run_gc: the assignments after the try body, or the except block
\* faulty variant: freed is the difference itself
GCDone_NoClamp(k) ==
    /\ gc' = [gc EXCEPT !.freed_bytes = gcTasks[k].size_before - gcDisk,
                        !.output = "out", !.status = "done", !.finished_at = k]
    /\ gcTasks' = [gcTasks EXCEPT ![k].pc = "ended"]

\* freed = max(0, size_before - size_after), or 0 when disk_usage raises
GCDone(k) ==
    /\ \E freed \in {Max({0, gcTasks[k].size_before - gcDisk}), 0} :
          gc' = [gc EXCEPT !.freed_bytes = freed, !.output = "out", !.status = "done",
                           !.finished_at = k]
    /\ gcTasks' = [gcTasks EXCEPT ![k].pc = "ended"]

GCFailed(k) ==
    /\ gc' = [gc EXCEPT !.status = "failed", !.error = "err", !.output = "out",
                        !.finished_at = k]
    /\ gcTasks' = [gcTasks EXCEPT ![k].pc = "ended"]

\* _run_gc up to its first await (_find_registry_container_name)
GCStart(k) ==
    /\ gcTasks[k].pc = "queued"
    /\ gc' = [gc EXCEPT !.status = "running", !.started_at = k, !.output = "",
                        !.error = None, !.freed_bytes = 0]
    /\ \E size_before \in {gcDisk, 0} :
          gcTasks' = [gcTasks EXCEPT ![k].pc = "find", ![k].size_before = size_before]
    /\ UNCHANGED <<sysTasks, gcLock, supervisor, gcExec, gcApi, otherVars>>

\* the container name is known: docker exec ... garbage-collect in the running
\* container, or docker run registry:3 garbage-collect when none was found;
\* "raise": a subprocess could not be created
GCFound(k, outcome) ==
    /\ gcTasks[k].pc = "find"
    /\ outcome \in {"container", "none", "raise"}
    /\ IF outcome = "raise"
       THEN GCFailed(k) /\ UNCHANGED gcExec
       ELSE /\ Exec("_run_gc", IF outcome = "container" THEN "first" ELSE "temporary")
            /\ gcTasks' = [gcTasks EXCEPT ![k].pc =
                               IF outcome = "container" THEN "gc1" ELSE "tmp"]
            /\ UNCHANGED gc
    /\ UNCHANGED <<sysTasks, gcLock, supervisor, gcApi, otherVars>>

\* the first garbage-collect returned: on a non-zero code the ghost cleanup runs
GCFirst(k, ok) ==
    /\ gcTasks[k].pc = "gc1"
    /\ IF ok THEN GCDone(k)
       ELSE gcTasks' = [gcTasks EXCEPT ![k].pc = "ghosts"] /\ UNCHANGED gc
    /\ UNCHANGED <<sysTasks, gcLock, supervisor, gcExec, gcApi, otherVars>>

\* _cleanup_ghosts_from_gc_error returned: retry when ghost paths were cleaned
GCGhosts(k, cleaned) ==
    /\ gcTasks[k].pc = "ghosts"
    /\ IF cleaned
       THEN /\ Exec("_run_gc", "retry")
            /\ gcTasks' = [gcTasks EXCEPT ![k].pc = "gc2"]
            /\ UNCHANGED gc
       ELSE GCFailed(k) /\ UNCHANGED gcExec
    /\ UNCHANGED <<sysTasks, gcLock, supervisor, gcApi, otherVars>>

\* faulty variant: a failed retry is followed by another retry
GCLast_RetryAgain(k, ok) ==
    /\ gcTasks[k].pc \in {"gc2", "tmp"}
    /\ IF ok THEN GCDone(k) /\ UNCHANGED gcExec
       ELSE IF gcTasks[k].pc = "gc2"
       THEN Exec("_run_gc", "again") /\ UNCHANGED <<gc, gcTasks>>
       ELSE GCFailed(k) /\ UNCHANGED gcExec
    /\ UNCHANGED <<sysTasks, gcLock, supervisor, gcApi, otherVars>>

\* the retry, or the temporary container, returned
GCLast(k, ok) ==
    /\ gcTasks[k].pc \in {"gc2", "tmp"}
    /\ IF ok THEN GCDone(k) ELSE GCFailed(k)
    /\ UNCHANGED <<sysTasks, gcLock, supervisor, gcExec, gcApi, otherVars>>

\* the finally block of run_registry_garbage_collect and the release of the lock:
\* proxy.supervisor.startProcess("registry"), which supervisord carries out
\* (start_ok) or answers with a fault
SysFinally(k, start_ok) ==
    /\ supervisor' = IF start_ok THEN "RUNNING" ELSE supervisor
    /\ sysTasks' = [sysTasks EXCEPT ![k].pc = "ended",
                                    ![k].sup = IF start_ok THEN "start" ELSE "start_failed"]
    /\ gcLock' = 0

\* POST /api/system/gc: the lock is taken when free, then stopProcess("registry")
\* and asyncio.sleep(2); a fault of stopProcess leads to the finally block
SysAcquire(k, stop_ok, start_ok) ==
    /\ sysTasks[k].pc = "none"
    /\ \A i \in 1..(k - 1) : sysTasks[i].pc # "none"
    /\ gcLock = 0
    /\ IF stop_ok
       THEN /\ gcLock' = k
            /\ supervisor' = "STOPPED"
            /\ sysTasks' = [sysTasks EXCEPT ![k].pc = "sleep", ![k].sup = "stop"]
            /\ UNCHANGED gcApi
       ELSE /\ SysFinally(k, start_ok)
            /\ gcApi' = [op |-> "system_gc", code |-> 500]
    /\ UNCHANGED <<gc, gcTasks, gcExec, otherVars>>

\* the sleep is over: the garbage-collect command is started ("raise": it could not
\* be created, or the request was cancelled)
SysSleepDone(k, created, start_ok) ==
    /\ sysTasks[k].pc = "sleep"
    /\ IF created
       THEN /\ Exec("run_registry_garbage_collect", "first")
            /\ sysTasks' = [sysTasks EXCEPT ![k].pc = "cmd"]
            /\ UNCHANGED <<gcLock, supervisor, gcApi>>
       ELSE /\ SysFinally(k, start_ok)
            /\ gcApi' = [op |-> "system_gc", code |-> 500]
            /\ UNCHANGED gcExec
    /\ UNCHANGED <<gc, gcTasks, otherVars>>

\* faulty variant: the registry is started again only after a successful collection
SysCmdDone_StartOnSuccess(k, ok, start_ok) ==
    /\ sysTasks[k].pc = "cmd"
    /\ IF ok THEN SysFinally(k, start_ok)
       ELSE /\ sysTasks' = [sysTasks EXCEPT ![k].pc = "ended"]
            /\ gcLock' = 0
            /\ UNCHANGED supervisor
    /\ gcApi' = [op |-> "system_gc", code |-> IF ok /\ start_ok THEN 200 ELSE 500]
    /\ UNCHANGED <<gc, gcTasks, gcExec, otherVars>>

\* the command returned (ok: return code 0): result, finally block, response
SysCmdDone(k, ok, start_ok) ==
    /\ sysTasks[k].pc = "cmd"
    /\ SysFinally(k, start_ok)
    /\ gcApi' = [op |-> "system_gc", code |-> IF ok /\ start_ok THEN 200 ELSE 500]
    /\ UNCHANGED <<gc, gcTasks, gcExec, otherVars>>

InitGC ==
    /\ SyncOff
    /\ users = <<>>
    /\ folders = <<>>
    /\ authEnabled = TRUE
    /\ ProxyIdle
    /\ probe = NoProbe
    /\ StagingOff
    /\ GCIdle
    /\ AuditOff
    /\ removal = NoRemoval

NextGC ==
    \/ start_garbage_collect
    \/ \E k \in 1..MaxGCRuns : GCStart(k)
    \/ \E k \in 1..MaxGCRuns, outcome \in {"container", "none", "raise"} : GCFound(k, outcome)
    \/ \E k \in 1..MaxGCRuns, ok \in BOOLEAN : GCFirst(k, ok)
    \/ \E k \in 1..MaxGCRuns, cleaned \in BOOLEAN : GCGhosts(k, cleaned)
    \/ \E k \in 1..MaxGCRuns, ok \in BOOLEAN : GCLast(k, ok)
    \/ \E k \in 1..MaxSysRuns, stop_ok \in BOOLEAN, start_ok \in BOOLEAN :
          SysAcquire(k, stop_ok, start_ok)
    \/ \E k \in 1..MaxSysRuns, created \in BOOLEAN, start_ok \in BOOLEAN :
          SysSleepDone(k, created, start_ok)
    \/ \E k \in 1..MaxSysRuns, ok \in BOOLEAN, start_ok \in BOOLEAN :
          SysCmdDone(k, ok, start_ok)

SpecGC == InitGC /\ [][NextGC]_vars

\* ------------------------------------------------------------------------
\* registry.py: the runs of _run_gc while the disk usage of the registry
\* directory changes
\* ------------------------------------------------------------------------
MaxSize == 2                \* bytes used in /var/lib/registry

Sizes == 0..MaxSize

\* the usage changes: blobs are written or removed
DiskUsage(n) ==
    /\ n # gcDisk
    /\ gcDisk' = n
    /\ UNCHANGED <<gc, gcTasks, sysTasks, gcLock, supervisor, gcExec, gcApi,
                   syncVars, auditVars, removal, policyVars, proxyVars, probe, stagingVars>>

InitGCDisk ==
    /\ SyncOff
    /\ users = <<>>
    /\ folders = <<>>
    /\ authEnabled = TRUE
    /\ ProxyIdle
    /\ probe = NoProbe
    /\ StagingOff
    /\ GCTasksIdle
    /\ gcDisk \in Sizes
    /\ AuditOff
    /\ removal = NoRemoval

\* the steps of the task k of _run_gc
GCStep(k) ==
    \/ GCStart(k)
    \/ \E outcome \in {"container", "none", "raise"} : GCFound(k, outcome)
    \/ \E ok \in BOOLEAN : GCFirst(k, ok)
    \/ \E cleaned \in BOOLEAN : GCGhosts(k, cleaned)
    \/ \E ok \in BOOLEAN : GCLast(k, ok)

\* the runs followed here: the first one; later requests are made while it
\* runs and are refused
DiskRuns == {1}

NextGCDisk ==
    \/ start_garbage_collect /\ \A k \in 1..MaxGCRuns \ DiskRuns : gcTasks'[k].pc = "none"
    \/ \E k \in DiskRuns : GCStep(k)
    \/ \E n \in Sizes : DiskUsage(n)

\* a task that can take a step takes one: the event loop runs the task, and
\* the subprocess it awaits returns
SpecGCDisk ==
    /\ InitGCDisk
    /\ [][NextGCDisk]_vars
    /\ \A k \in DiskRuns : WF_vars(GCStep(k))

\* ========================================================================
\* The audit sink (services/audit_service.py)
\* ========================================================================
\* An event is modelled by its emission number: the k-th event appended to
\* the ring since the process started is k.  0 is an event left in the
\* file by an earlier process.
MaxEmits == 3               \* events emitted
MaxCap == 2                 \* largest capacity configured
MaxLimit == 2               \* largest limit of a recent call

CapInputs == 0..MaxCap      \* values handed to _set_audit_max_events
nonAuditVars == <<syncVars, gcVars, removal, policyVars, proxyVars, probe, stagingVars>>

\* faulty variant: a full deque keeps its oldest elements
Deque_KeepOldest(seq, maxlen) ==
    IF Len(seq) <= maxlen THEN seq ELSE SubSeq(seq, 1, maxlen)

\* deque(seq, maxlen=maxlen): the last maxlen elements of seq
Deque(seq, maxlen) ==
    IF Len(seq) <= maxlen THEN seq ELSE SubSeq(seq, Len(seq) - maxlen + 1, Len(seq))

\* max(1, int(max_events))
normalized_max(max_events) == IF max_events < 1 THEN 1 ELSE max_events

Reversed(seq) == [i \in 1..Len(seq) |-> seq[Len(seq) + 1 - i]]

ElementsOf(seq) == {seq[i] : i \in DOMAIN seq}

_read_recent_events_from_disk(limit) == Deque(auditFile, limit)

\* the list get_recent_audit_events returns
RecentEvents(limit) ==
    LET disk_events == _read_recent_events_from_disk(limit)
        in_memory_events ==
            IF Len(ring) < limit /\ Len(disk_events) > Len(ring)
            THEN disk_events
            ELSE ring
    IN  Reversed(Deque(in_memory_events, limit))

\* _set_audit_max_events
_set_audit_max_events(max_events) ==
    /\ auditMax' = normalized_max(max_events)
    /\ ring' = Deque(ring, normalized_max(max_events))
    /\ recentOut' = [op |-> "set_max"]
    /\ UNCHANGED <<auditFile, emitter, emitted, sinceRecent, nonAuditVars>>

\* _store_recent_event, the block under _audit_events_lock
StoreLocked(t) ==
    /\ emitter[t].pc = "idle"
    /\ emitted < MaxEmits
    /\ emitted' = emitted + 1
    /\ ring' = Deque(Append(ring, emitted + 1), auditMax)
    /\ emitter' = [emitter EXCEPT ![t] =
                      [pc |-> "append", event |-> emitted + 1, max_events |-> auditMax]]
    /\ UNCHANGED <<auditMax, auditFile, sinceRecent, recentOut, nonAuditVars>>

\* _store_recent_event, the append to the file, after the lock is released
FileAppend(t) ==
    /\ emitter[t].pc = "append"
    /\ auditFile' = Append(auditFile, emitter[t].event)
    /\ emitter' = [emitter EXCEPT ![t].pc = "trim"]
    /\ UNCHANGED <<ring, auditMax, emitted, sinceRecent, recentOut, nonAuditVars>>

\* _trim_audit_file, the read of the last max_events lines
TrimRead(t) ==
    /\ emitter[t].pc = "trim"
    /\ emitter' = [emitter EXCEPT ![t] =
                      [pc |-> "write", event |-> emitter[t].event,
                       max_events |-> emitter[t].max_events,
                       events |-> _read_recent_events_from_disk(emitter[t].max_events)]]
    /\ UNCHANGED <<ring, auditMax, auditFile, emitted, sinceRecent, recentOut, nonAuditVars>>

\* _trim_audit_file, the rewrite of the file; the emit returns
TrimWrite(t) ==
    /\ emitter[t].pc = "write"
    /\ auditFile' = emitter[t].events
    /\ emitter' = [emitter EXCEPT ![t] = [pc |-> "idle"]]
    /\ sinceRecent' = sinceRecent \cup {emitter[t].event}
    /\ UNCHANGED <<ring, auditMax, emitted, recentOut, nonAuditVars>>

\* get_recent_audit_events; sinceRecent holds the events whose emit returned
\* since the call before
get_recent_audit_events(limit) ==
    /\ recentOut' = [op |-> "recent", limit |-> limit, result |-> RecentEvents(limit)]
    /\ sinceRecent' = {}
    /\ UNCHANGED <<ring, auditMax, auditFile, emitter, emitted, nonAuditVars>>

\* AuditService(settings) has run; the file may hold an event of an earlier
\* process
InitAudit ==
    /\ SyncOff
    /\ users = <<>>
    /\ folders = <<>>
    /\ authEnabled = TRUE
    /\ ProxyIdle
    /\ probe = NoProbe
    /\ StagingOff
    /\ GCOff
    /\ removal = NoRemoval
    /\ \E max_events \in CapInputs : auditMax = normalized_max(max_events)
    /\ ring = <<>>
    /\ auditFile \in {<<>>, <<0>>}
    /\ emitter = [t \in Threads |-> [pc |-> "idle"]]
    /\ emitted = 0
    /\ sinceRecent = {}
    /\ recentOut = [op |-> "none"]

NextAudit ==
    \/ \E t \in Threads : StoreLocked(t)
    \/ \E t \in Threads : FileAppend(t)
    \/ \E t \in Threads : TrimRead(t)
    \/ \E t \in Threads : TrimWrite(t)
    \/ \E max_events \in CapInputs : _set_audit_max_events(max_events)
    \/ \E limit \in 1..MaxLimit : get_recent_audit_events(limit)

SpecAudit == InitAudit /\ [][NextAudit]_vars

\* ========================================================================
\* Replication (services/external_registry_service.py) and the catalog
\* listing it uses (services/registry_service.py)
\* ========================================================================
\* A repository name is "{ns}/{name}", or "{name}" when ns is "".  A source
\* reference is the pair of a repository and a tag; the host of the local
\* registry is the same in every source reference and is left out.
MaxRepos == 2               \* repositories of a small catalog
CatalogN == 1000            \* list_repositories: n, the page size asked for

nonSyncVars == <<regVars, gcVars, auditVars, removal, policyVars, proxyVars, probe, stagingVars>>

Repo(ns, name) == [ns |-> ns, name |-> name]

RepoPool == {Repo("", 1), Repo("a", 1), Repo("a", 2)}

TagLists == {<<>>, <<"latest">>, <<"latest", "v1">>}

\* the sequences without repetition of at most n repositories of the pool
RepoSeqs(n) ==
    UNION { { s \in [1..k -> RepoPool] : \A i, j \in 1..k : i # j => s[i] # s[j] } :
            k \in 0..n }

SmallCatalogs ==
    UNION { { [repositories |-> s, tags |-> t] : t \in [ElementsOf(s) -> TagLists] } :
            s \in RepoSeqs(MaxRepos) }

\* one repository more than a page holds, each with one tag
LargeCatalog ==
    [ repositories |-> [i \in 1..(CatalogN + 1) |-> Repo("", i)],
      tags |-> [r \in {Repo("", i) : i \in 1..(CatalogN + 1)} |-> <<"latest">>] ]

\* RegistryService.list_tags: 404 gives []
list_tags(repository) ==
    IF repository \in DOMAIN catalog.tags THEN catalog.tags[repository] ELSE <<>>

\* GET /v2/_catalog?n={n}: the first n repositories
CatalogPage(n) ==
    IF Len(catalog.repositories) <= n THEN catalog.repositories
    ELSE SubSeq(catalog.repositories, 1, n)

\* RegistryService.list_repositories
list_repositories(n, include_empty) ==
    LET repositories == CatalogPage(n)
        HasTags(repo) == list_tags(repo) # <<>>
    IN  IF include_empty THEN repositories ELSE SelectSeq(repositories, HasTags)

\* repo.split("/")[-1] if "/" in repo else repo
image_name(repo) == repo.name

\* build_target_path: folder is used when it is neither None nor ""
build_target_path(folder, name, tag, registry_host) ==
    [ host |-> registry_host,
      folder |-> IF folder \notin {None, ""} THEN folder ELSE "",
      name |-> name,
      tag |-> tag ]

DestHost == "ext.example"

Pair(repo, tag, dest_folder) ==
    [ src |-> [repo |-> repo, tag |-> tag],
      dest |-> build_target_path(dest_folder, image_name(repo), tag, DestHost) ]

\* the inner loop: one pair per tag of the repository
TagPairs(repo, tags, dest_folder) ==
    [i \in 1..Len(tags) |-> Pair(repo, tags[i], dest_folder)]

\* the outer loop over the repositories listed: the pairs of each repository
\* one after the other, in the order of the list (computed by halves)
RECURSIVE RepoPairs(_, _)
RepoPairs(repos, dest_folder) ==
    IF repos = <<>> THEN <<>>
    ELSE IF Len(repos) = 1
    THEN TagPairs(repos[1], list_tags(repos[1]), dest_folder)
    ELSE LET half == Len(repos) \div 2
         IN  RepoPairs(SubSeq(repos, 1, half), dest_folder)
                \o RepoPairs(SubSeq(repos, half + 1, Len(repos)), dest_folder)

\* source_image: "(all)" or "" for the whole catalog, "repo:tag", or "repo"
\* (no colon), which stands for the tag latest
SourceImages ==
    { [kind |-> "all"], [kind |-> "empty"],
      [kind |-> "single", repo |-> Repo("a", 1), tag |-> "v1"],
      [kind |-> "single", repo |-> Repo("", 1), tag |-> None] }

DestFolders == {None, "mirror"}

\* _execute_sync, lines 304-336: the list of pairs
BuildPairs(source_image, dest_folder) ==
    IF source_image.kind = "single"
    THEN <<Pair(source_image.repo,
                IF source_image.tag # None THEN source_image.tag ELSE "latest",
                dest_folder)>>
    ELSE RepoPairs(list_repositories(CatalogN, FALSE), dest_folder)

\* int((idx - 1) / max(total, 1) * 100)
ProgressAt(idx, total) == ((idx - 1) * 100) \div (IF total < 1 THEN 1 ELSE total)

\* run_sync_job
run_sync_job(j, source_image, dest_folder) ==
    /\ j \notin DOMAIN syncJobs
    /\ syncJobs' = [k \in DOMAIN syncJobs \cup {j} |->
                      IF k = j
                      THEN [ source |-> source_image, dest_folder |-> dest_folder,
                             status |-> "running", finished_at |-> None,
                             error |-> None, progress |-> 0,
                             images_total |-> 0, images_done |-> 0 ]
                      ELSE syncJobs[k]]
    /\ syncTask' = [syncTask EXCEPT ![j] = [pc |-> "created"]]
    /\ UNCHANGED <<catalog, nonSyncVars>>

\* faulty variant: an error exit that leaves finished_at unset
SyncError_NoFinishedAt(j, error) ==
    /\ syncJobs' = [syncJobs EXCEPT ![j].status = "error", ![j].error = error]
    /\ syncTask' = [syncTask EXCEPT ![j] = [pc |-> "ended", planned |-> FALSE, pairs |-> <<>>, copied |-> {},
                        errors |-> <<>>]]

\* the three assignments of an error exit of plan construction
SyncError(j, error) ==
    /\ syncJobs' = [syncJobs EXCEPT ![j].status = "error", ![j].error = error,
                                    ![j].finished_at = "now"]
    /\ syncTask' = [syncTask EXCEPT ![j] = [pc |-> "ended", planned |-> FALSE, pairs |-> <<>>, copied |-> {},
                        errors |-> <<>>]]

\* faulty variant: a run in which every pair failed ends in error
SyncFinish_AllFailedIsError(j, pairs, copied, errors, total, done) ==
    /\ syncJobs' = [syncJobs EXCEPT ![j].images_total = total,
                                    ![j].images_done = done,
                                    ![j].progress = 100,
                                    ![j].finished_at = "now",
                                    ![j].status = IF errors = <<>> THEN "done"
                                                  ELSE IF copied = {} THEN "error"
                                                  ELSE "partial",
                                    ![j].error = IF errors # <<>> THEN "errors" ELSE None]
    /\ syncTask' = [syncTask EXCEPT ![j] =
                       [pc |-> "ended", planned |-> TRUE, pairs |-> pairs,
                        copied |-> copied, errors |-> errors]]

\* lines 384-395, after the loop; errors: the indices of the pairs that failed
SyncFinish(j, pairs, copied, errors, total, done) ==
    /\ syncJobs' = [syncJobs EXCEPT ![j].images_total = total,
                                    ![j].images_done = done,
                                    ![j].progress = 100,
                                    ![j].finished_at = "now",
                                    ![j].status = IF errors # <<>> THEN "partial" ELSE "done",
                                    ![j].error = IF errors # <<>> THEN "errors" ELSE None]
    /\ syncTask' = [syncTask EXCEPT ![j] =
                       [pc |-> "ended", planned |-> TRUE, pairs |-> pairs,
                        copied |-> copied, errors |-> errors]]

\* _execute_sync from its start to the first skopeo process: the destination
\* is looked up, the pairs are built, images_total is set
SyncBuild(j, dest_found, enumerated) ==
    /\ syncTask[j].pc = "created"
    /\ LET source_image == syncJobs[j].source
           pairs == BuildPairs(source_image, syncJobs[j].dest_folder)
           total == Len(pairs)
       IN  IF ~dest_found
           THEN SyncError(j, "Destination registry not found")
           ELSE IF source_image.kind # "single" /\ ~enumerated
           THEN SyncError(j, "Failed to enumerate local images")
           ELSE IF total = 0
           THEN SyncFinish(j, pairs, {}, <<>>, 0, 0)
           ELSE /\ syncJobs' = [syncJobs EXCEPT ![j].images_total = total,
                                                ![j].progress = ProgressAt(1, total)]
                /\ syncTask' = [syncTask EXCEPT ![j] =
                                   [pc |-> "copying", planned |-> TRUE, pairs |-> pairs,
                                    idx |-> 1, copied |-> {}, errors |-> <<>>]]
    /\ UNCHANGED <<catalog, nonSyncVars>>

\* faulty variant: a pair that failed is not counted
DoneAfter_FailedNotCounted(job, idx, outcome) ==
    IF outcome = "nonzero" THEN job.images_done ELSE idx

\* _sync_jobs[job_id]["images_done"] = idx, whatever the return code was
DoneAfter(job, idx, outcome) == idx

\* the skopeo process of pair idx: it exits with 0 or not, or cannot be
\* started (create_subprocess_exec raises and the task ends there)
SyncCopied(j, outcome) ==
    /\ syncTask[j].pc = "copying"
    /\ LET task == syncTask[j]
           idx == task.idx
           total == Len(task.pairs)
           errors == IF outcome = "nonzero" THEN Append(task.errors, idx) ELSE task.errors
           copied == IF outcome = "ok" THEN task.copied \cup {idx} ELSE task.copied
       IN  IF outcome = "raise"
           THEN /\ syncTask' = [syncTask EXCEPT ![j].pc = "ended"]
                /\ UNCHANGED syncJobs
           ELSE IF idx = total
           THEN SyncFinish(j, task.pairs, copied, errors, total,
                           DoneAfter(syncJobs[j], idx, outcome))
           ELSE /\ syncJobs' = [syncJobs EXCEPT ![j].images_done =
                                                    DoneAfter(syncJobs[j], idx, outcome),
                                                ![j].progress = ProgressAt(idx + 1, total)]
                /\ syncTask' = [syncTask EXCEPT ![j].idx = idx + 1,
                                                ![j].copied = copied,
                                                ![j].errors = errors]
    /\ UNCHANGED <<catalog, nonSyncVars>>

InitSyncWith(catalogs) ==
    /\ users = <<>>
    /\ folders = <<>>
    /\ authEnabled = TRUE
    /\ ProxyIdle
    /\ probe = NoProbe
    /\ StagingOff
    /\ GCOff
    /\ AuditOff
    /\ removal = NoRemoval
    /\ catalog \in catalogs
    /\ SyncIdle

\* a job from its creation to its end, on a small catalog
InitSync == InitSyncWith(SmallCatalogs)

NextSync ==
    \/ \E j \in SyncIds, source_image \in SourceImages, dest_folder \in DestFolders :
          run_sync_job(j, source_image, dest_folder)
    \/ \E j \in SyncIds, dest_found \in BOOLEAN, enumerated \in BOOLEAN :
          SyncBuild(j, dest_found, enumerated)
    \/ \E j \in SyncIds, outcome \in {"ok", "nonzero", "raise"} : SyncCopied(j, outcome)

SpecSync == InitSync /\ [][NextSync]_vars

\* plan construction alone, also on a catalog longer than a page
InitSyncPlan == InitSyncWith(SmallCatalogs \cup {LargeCatalog})

NextSyncPlan ==
    \/ \E j \in SyncIds, source_image \in SourceImages, dest_folder \in DestFolders :
          run_sync_job(j, source_image, dest_folder)
    \/ \E j \in SyncIds, dest_found \in BOOLEAN, enumerated \in BOOLEAN :
          SyncBuild(j, dest_found, enumerated)

SpecSyncPlan == InitSyncPlan /\ [][NextSyncPlan]_vars

\* two jobs on the same catalog, started in any order and interleaved at
\* their awaits; uuid4 gives them different ids
TwoSyncIds == {"s1", "s2"}

PairCatalog ==
    [ repositories |-> <<Repo("", 1), Repo("a", 2)>>,
      tags |-> [r \in {Repo("", 1), Repo("a", 2)} |->
                  IF r = Repo("", 1) THEN <<"latest">> ELSE <<"latest", "v1">>] ]

InitTwoSyncs ==
    /\ users = <<>>
    /\ folders = <<>>
    /\ authEnabled = TRUE
    /\ ProxyIdle
    /\ probe = NoProbe
    /\ StagingOff
    /\ GCOff
    /\ AuditOff
    /\ removal = NoRemoval
    /\ catalog = PairCatalog
    /\ syncJobs = <<>>
    /\ syncTask = [j \in TwoSyncIds |-> [pc |-> "none"]]
    /\ registries = <<>>
    /\ regOut = [op |-> "none"]

NextTwoSyncs ==
    \/ \E j \in TwoSyncIds, source_image \in SourceImages, dest_folder \in DestFolders :
          run_sync_job(j, source_image, dest_folder)
    \/ \E j \in TwoSyncIds, dest_found \in BOOLEAN, enumerated \in BOOLEAN :
          SyncBuild(j, dest_found, enumerated)
    \/ \E j \in TwoSyncIds, outcome \in {"ok", "nonzero", "raise"} : SyncCopied(j, outcome)

SpecTwoSyncs == InitTwoSyncs /\ [][NextTwoSyncs]_vars

\* ------------------------------------------------------------------------
\* external_registry_service.py, routers/external_registries.py: the saved
\* external registries.  An entry is a dict with id, name, host, username and
\* password (created_at is left out); the file is read and written without
\* error
\* ------------------------------------------------------------------------
MaxRegistries == 2          \* entries of external_registries.json

RegistryIds == {"r1", "r2"}
Mask == "********"          \* the eight bullets returned for a stored password
Passwords == {"", "s3cret", "hunter2", Mask}
Hosts == {"h1", "h2"}

\* faulty variant: the entry is returned as it is stored
Redact_Verbatim(r) == r

\* {**r, "password": "••••••••" if r.get("password") else ""}
Redact(r) == [r EXCEPT !.password = IF r.password # "" THEN Mask ELSE ""]

\* get_registries on the list read from the file
get_registries(regs) == [i \in 1..Len(regs) |-> Redact(regs[i])]

\* get_registry_by_id: the position of the entry, 0 for None
get_registry_by_id(regs, registry_id) ==
    IF \E i \in 1..Len(regs) : regs[i].id = registry_id
    THEN Min({i \in 1..Len(regs) : regs[i].id = registry_id})
    ELSE 0

\* create_registry: the list written and the dict returned
create_registry(regs, id, name, host, username, password) ==
    LET entry == [ id |-> id, name |-> name, host |-> host,
                   username |-> username, password |-> password ]
    IN  [store |-> Append(regs, entry), result |-> Redact(entry)]

\* update_registry: the list written and the dict returned; found = FALSE for None
update_registry(regs, registry_id, name, host, username, password) ==
    LET i == get_registry_by_id(regs, registry_id)
    IN  IF i = 0 THEN [store |-> regs, found |-> FALSE]
        ELSE LET r == [ id |-> regs[i].id,
                        name |-> IF name # None THEN name ELSE regs[i].name,
                        host |-> IF host # None THEN host ELSE regs[i].host,
                        username |-> IF username # None THEN username
                                     ELSE regs[i].username,
                        password |-> IF password # None /\ password # ""
                                     THEN password ELSE regs[i].password ]
             IN  [ store |-> [regs EXCEPT ![i] = r], found |-> TRUE,
                   result |-> Redact(r) ]

\* delete_registry
delete_registry(regs, registry_id) ==
    SelectSeq(regs, LAMBDA r : r.id # registry_id)

\* GET /registries
list_registries ==
    /\ regOut' = [op |-> "list", code |-> 200, result |-> get_registries(registries)]
    /\ UNCHANGED <<registries, catalog, syncJobs, syncTask, gcVars, auditVars, removal,
                   policyVars, proxyVars, probe, stagingVars>>

\* POST /registries; id: the value uuid4() returns
add_registry(id, name, host, username, password) ==
    /\ Len(registries) < MaxRegistries
    /\ \A i \in 1..Len(registries) : registries[i].id # id
    /\ LET made == create_registry(registries, id, name, host, username, password)
       IN  /\ registries' = made.store
           /\ regOut' = [op |-> "create", code |-> 201, result |-> made.result]
    /\ UNCHANGED <<catalog, syncJobs, syncTask, gcVars, auditVars, removal,
                   policyVars, proxyVars, probe, stagingVars>>

\* PATCH /registries/{registry_id}
edit_registry(registry_id, name, host, username, password) ==
    /\ LET updated == update_registry(registries, registry_id, name, host,
                                      username, password)
       IN  /\ registries' = updated.store
           /\ regOut' = IF updated.found
                        THEN [op |-> "update", code |-> 200, result |-> updated.result]
                        ELSE [op |-> "update", code |-> 404]
    /\ UNCHANGED <<catalog, syncJobs, syncTask, gcVars, auditVars, removal,
                   policyVars, proxyVars, probe, stagingVars>>

\* DELETE /registries/{registry_id}
remove_registry(registry_id) ==
    /\ registries' = delete_registry(registries, registry_id)
    /\ regOut' = [ op |-> "delete",
                   code |-> IF get_registry_by_id(registries, registry_id) = 0
                            THEN 404 ELSE 204 ]
    /\ UNCHANGED <<catalog, syncJobs, syncTask, gcVars, auditVars, removal,
                   policyVars, proxyVars, probe, stagingVars>>

InitRegistries == InitSyncWith({EmptyCatalog})

NextRegistries ==
    \/ list_registries
    \/ \E id \in RegistryIds, host \in Hosts, password \in Passwords :
          add_registry(id, "n", host, "u", password)
    \/ \E id \in RegistryIds, name \in {None, "n"}, host \in {None} \cup Hosts,
          username \in {None, "u"}, password \in {None} \cup Passwords :
          edit_registry(id, name, host, username, password)
    \/ \E id \in RegistryIds : remove_registry(id)

SpecRegistries == InitRegistries /\ [][NextRegistries]_vars

\* ========================================================================
\* The authorization procedure of the specification (sections 3, 4.1, 4.3),
\* stated on the policy snapshot and the request
\* ========================================================================
D_HasUser(u) == \E i \in DOMAIN users : users[i].username = u

D_User(u) == users[CHOOSE i \in DOMAIN users : users[i].username = u]

\* the principal the credentials establish, None when missing or invalid
D_Principal(h) ==
    IF h.scheme = "basic" /\ h.wellformed
    THEN IF \/ (h.user = admin_username /\ h.pwd = admin_password)
            \/ (D_HasUser(h.user) /\ D_User(h.user).password_hash = [bcrypt |-> h.pwd[1]])
         THEN h.user ELSE None
    ELSE IF h.scheme = "bearer" /\ h.wellformed /\ h.sub \notin {None, ""}
         THEN h.sub ELSE None

D_IsAdmin(u) == u = admin_username \/ (D_HasUser(u) /\ D_User(u).is_admin)

D_GlobalPull(u) == D_HasUser(u) /\ D_User(u).can_pull_images

D_GlobalPush(u) == D_HasUser(u) /\ D_User(u).can_push_images

D_IsPull(method) == method \in {"GET", "HEAD"}

D_IsPush(method) == method \in {"POST", "PUT", "PATCH", "DELETE"}

\* a folder named like the first segment of P
D_NamedLikeFirstSegment(P) == Len(P) >= 1 /\ \E i \in DOMAIN folders : folders[i].name = P[1]

\* the folder prefix of P: P has a first segment followed by further segments
D_Matched(P) == Len(P) >= 2 /\ D_NamedLikeFirstSegment(P)

D_FolderOf(P) == folders[CHOOSE i \in DOMAIN folders : folders[i].name = P[1]]

D_FolderGrants(P, u, method) ==
    \E i \in DOMAIN D_FolderOf(P).permissions :
        LET e == D_FolderOf(P).permissions[i]
        IN  e.username = u /\ (IF D_IsPull(method) THEN e.can_pull ELSE e.can_push)

D_Allow(rq) ==
    LET u == D_Principal(rq.header)
        P == _extract_image_path(rq.v2_path)
    IN  /\ u # None
        /\ \/ D_IsAdmin(u)
           \/ (D_Matched(P) /\ D_FolderGrants(P, u, rq.method))
           \/ (~D_Matched(P) /\ D_IsPull(rq.method) /\ D_GlobalPull(u))

Serving(r) == pc[r] # "idle"

\* the request passed authorization: it is on its way upstream or was sent
Forwarded(r) == pc[r] \in {"body", "upstream"} \/ (pc[r] = "done" /\ contacted[r])

\* the request was answered with `code` by the proxy itself, upstream untouched
Refused(r, code) == pc[r] = "done" /\ ~contacted[r] /\ resp[r].status = code

DenialAudited(r) ==
    /\ Len(events[r]) = 1
    /\ events[r][1].event = "registry_authorize"
    /\ events[r][1].http_status = resp[r].status

C3_RootPushDenied ==
    authEnabled =>
        \A r \in Slots :
            LET u == D_Principal(req[r].header)
                P == _extract_image_path(req[r].v2_path)
            IN  (Serving(r) /\ u # None /\ ~D_IsAdmin(u) /\ D_IsPush(req[r].method)
                   /\ ~D_Matched(P)) => Refused(r, 403)

C3_Witness ==
    /\ authEnabled
    /\ Refused(1, 403)
    /\ D_Principal(req[1].header) = "alice"
    /\ ~D_IsAdmin("alice")
    /\ D_GlobalPush("alice")
    /\ D_IsPush(req[1].method)
    /\ ~D_NamedLikeFirstSegment(_extract_image_path(req[1].v2_path))

\* C4 as stated: for every image path of one or more segments, a folder matches
\* exactly when its name equals the first segment, and then the folder rule decides.
C4_FirstSegmentSelects ==
    (probe.stage = "out" /\ Len(probe.image_path) >= 1) =>
        /\ (probe.folder # 0) <=> D_NamedLikeFirstSegment(probe.image_path)
        /\ (probe.access # None) <=> D_NamedLikeFirstSegment(probe.image_path)

\* C4 amended: for every image path of two or more segments, a folder matches
\* exactly when its name equals the first segment, and then the folder rule (not
\* the global fallback) decides; a path of fewer than two segments is matched by no
\* folder, also when a folder is named like it.
C4_FolderPrefixSelects ==
    probe.stage = "out" =>
        /\ Len(probe.image_path) >= 2 =>
              /\ (probe.folder # 0) <=> D_NamedLikeFirstSegment(probe.image_path)
              /\ probe.folder # 0 => folders[probe.folder].name = probe.image_path[1]
              /\ (probe.access # None) <=> D_NamedLikeFirstSegment(probe.image_path)
              /\ probe.access = "True" <=>
                    /\ D_NamedLikeFirstSegment(probe.image_path)
                    /\ D_FolderGrants(probe.image_path, probe.username,
                                      IF probe.is_pull THEN "GET" ELSE "PUT")
        /\ Len(probe.image_path) <= 1 => (probe.folder = 0 /\ probe.access = None)

C4_Witness ==
    /\ probe.stage = "out"
    /\ Len(probe.image_path) = 2
    /\ probe.folder # 0
    /\ probe.image_path[2] # probe.image_path[1]
    /\ probe.access = "True"

\* C5: with proxy auth enabled, a request whose credentials are missing or invalid
\* is answered 401 with the WWW-Authenticate challenge, never 403, and is not
\* forwarded.
C5_BadCredentials401 ==
    authEnabled =>
        \A r \in Slots :
            (Serving(r) /\ D_Principal(req[r].header) = None) =>
                /\ Refused(r, 401)
                /\ resp[r].challenge

\* Basic, an existing user, a wrong password
C5_Witness ==
    /\ authEnabled
    /\ Refused(1, 401) /\ resp[1].challenge
    /\ req[1].header.scheme = "basic" /\ req[1].header.wellformed
    /\ D_HasUser(req[1].header.user)
    /\ D_Principal(req[1].header) = None

\* C6: for an image path matched by no folder, a pull by an authenticated non-admin
\* user is answered 403 iff the user's global pull right is false; otherwise it is
\* forwarded.
C6_RootPullGlobal ==
    authEnabled =>
        \A r \in Slots :
            LET u == D_Principal(req[r].header)
                P == _extract_image_path(req[r].v2_path)
            IN  (Serving(r) /\ u # None /\ ~D_IsAdmin(u) /\ D_IsPull(req[r].method)
                   /\ ~D_Matched(P)) =>
                    IF D_GlobalPull(u) THEN Forwarded(r) ELSE Refused(r, 403)

C6_Witness ==
    /\ authEnabled
    /\ Refused(1, 403)
    /\ D_Principal(req[1].header) = "alice"
    /\ ~D_IsAdmin("alice") /\ ~D_GlobalPull("alice") /\ D_GlobalPush("alice")
    /\ D_IsPull(req[1].method)
    /\ ~D_NamedLikeFirstSegment(_extract_image_path(req[1].v2_path))

\* C7: under every interleaving of requests, the audit events of a request carry
\* that request's own path, method, client IP and username (no username when the
\* request is unauthenticated), never values written by another request.
C7_EventsCarryOwnRequest ==
    \A r \in Slots : \A i \in 1..Len(events[r]) :
        /\ events[r][i].path = req[r].v2_path
        /\ events[r][i].method = req[r].method
        /\ events[r][i].client_ip = _client_ip(req[r])
        /\ events[r][i].username = D_Principal(req[r].header)

\* ========================================================================
\* The job lifecycle
\* ========================================================================
\* the status set and the edges of the lifecycle diagram of section 4.4
DiagramStatuses ==
    { "pending", "pulling", "vuln_scanning", "scan_skipped", "scan_clean",
      "scan_vulnerable", "pushing", "done", "failed" }

DiagramEdges ==
    { <<"pending", "pulling">>,
      <<"pulling", "vuln_scanning">>, <<"pulling", "scan_skipped">>, <<"pulling", "failed">>,
      <<"vuln_scanning", "scan_clean">>, <<"vuln_scanning", "scan_vulnerable">>,
      <<"scan_skipped", "scan_clean">>,
      <<"scan_clean", "pushing">>, <<"scan_skipped", "pushing">>, <<"done", "pushing">>,
      <<"pushing", "done">>, <<"pushing", "failed">> }

\* the edges of the lifecycle of app/routers/staging.py
PipelineEdges ==
    { <<"pending", "pulling">>,
      <<"pulling", "scanning">>, <<"pulling", "scan_skipped">>, <<"pulling", "failed">>,
      <<"scanning", "scan_infected">>, <<"scanning", "vuln_scanning">>,
      <<"scanning", "scan_clean">>,
      <<"scan_skipped", "vuln_scanning">>, <<"scan_skipped", "scan_clean">>,
      <<"vuln_scanning", "scan_clean">>, <<"vuln_scanning", "scan_vulnerable">>,
      <<"vuln_scanning", "failed">>,
      <<"scan_clean", "pushing">>, <<"done", "pushing">>, <<"failed", "pushing">>,
      <<"pushing", "done">>, <<"pushing", "failed">>,
      <<"done", "failed">>, <<"failed", "done">> }

\* the changes of status the last assigning step of job j made
Changes(j) ==
    { <<statusLog[j][i], statusLog[j][i + 1]>> : i \in 1..(Len(statusLog[j]) - 1) }
        \ { <<st, st>> : st \in JobStatus }

Assigned(j) == { statusLog[j][i] : i \in 1..Len(statusLog[j]) }

C9_PushPrecondition ==
    [][ (api' # api /\ api'.op = "push" /\ api'.job \in DOMAIN jobs) =>
          LET st == jobs[api'.job].status
          IN  /\ api'.code = 200 => st \in {"scan_clean", "scan_skipped", "done"}
              /\ st \notin {"scan_clean", "scan_skipped", "done"} =>
                    /\ api'.code = 400
                    /\ jobs' = jobs
                    /\ pushTasks' = pushTasks
                    /\ tarballs' = tarballs ]_vars

\* a push request refused for a job whose scan found blocking vulnerabilities
C9_Witness ==
    /\ api.op = "push" /\ api.code = 400
    /\ api.job \in DOMAIN jobs
    /\ jobs[api.job].status = "scan_vulnerable"

\* C10: once a job's status is failed or scan_vulnerable it never changes again.
C10_TerminalStates ==
    \A j \in JobIds : \A i \in 1..(Len(statusLog[j]) - 1) :
        statusLog[j][i] \in {"failed", "scan_vulnerable"} =>
            statusLog[j][i + 1] = statusLog[j][i]

\* the pipeline tasks at work on the record of job j
PullRunning(j) == pullTask[j].pc \notin {"none", "queued", "ended"}

PushRunning(j) == {k \in 1..MaxPushes : pushTasks[j][k].pc \notin {"none", "queued", "ended"}}

\* C11: at any time at most one pipeline task (pull or push) is at work on a job's
\* record; two push requests for a job never lead to two push pipelines running on it.
C11_OnePipelinePerJob ==
    \A j \in JobIds :
        Cardinality(PushRunning(j)) + (IF PullRunning(j) THEN 1 ELSE 0) <= 1

\* C12: a push of a staged job, to the local or to an external registry, is carried
\* out only for a caller with push access (an administrator or a user with the push
\* right; no folder is configured here).
C12_PushNeedsAccess ==
    (api.op \in {"push", "push_external"} /\ api.code = 200) =>
        (D_IsAdmin(api.caller) \/ D_GlobalPush(api.caller))

\* p lies below root
IsDescendant(root, p) == Len(p) > Len(root) /\ SubSeq(p, 1, Len(root)) = root

\* C13: no ghost purge, GC ghost cleanup, job delete or orphan purge removes a path
\* that is not a descendant of its root (the repositories root, the staging root),
\* for every repository name, job id and GC output given as input.
C13_RemovesBelowRoot ==
    removal.stage = "out" =>
        \A p \in removal.removed : IsDescendant(removal.root, p)

\* the GC runs in progress: past their first statement and not finished
GCInProgress ==
    {<<"_run_gc", k>> : k \in {i \in 1..MaxGCRuns : gcTasks[i].pc \notin {"none", "queued", "ended"}}}
    \cup
    {<<"system", k>> : k \in {i \in 1..MaxSysRuns : sysTasks[i].pc \notin {"none", "ended"}}}

\* C14: at most one garbage-collection run is in progress at any time, under every
\* interleaving of GC start requests.
C14_OneGCAtATime == Cardinality(GCInProgress) <= 1

\* a step that handles a GC start request, on either endpoint
GCStartRequest ==
    \/ gcApi' # gcApi /\ gcApi'.op = "start"
    \/ gcTasks' # gcTasks /\ \E k \in 1..MaxGCRuns : gcTasks[k].pc = "none" /\ gcTasks'[k].pc # "none"
    \/ \E k \in 1..MaxSysRuns : sysTasks[k].pc = "none" /\ sysTasks'[k].pc # "none"

\* C15: a GC start request received while the GC status is running is answered 409
\* and leaves the GC state unchanged; no new run is scheduled.
C15_StartWhileRunning ==
    [][ (gc.status = "running" /\ GCStartRequest) =>
            /\ gcApi'.op = "start" /\ gcApi'.code = 409
            /\ gc' = gc
            /\ gcTasks' = gcTasks
            /\ sysTasks' = sysTasks
            /\ gcExec' = gcExec ]_vars

C17_GCOnlyWhileStopped == gcExec.run # "none" => gcExec.registry = "STOPPED"

\* ------------------------------------------------------------------------
\* C18: the events of the file and the events of the ring are both in the
\* order of emission, also when emits run concurrently.
\* ------------------------------------------------------------------------
InEmissionOrder(seq) == \A i, j \in DOMAIN seq : i < j => seq[i] < seq[j]

C18_FileInEmissionOrder == InEmissionOrder(auditFile) /\ InEmissionOrder(ring)

\* ------------------------------------------------------------------------
\* C19: the capacity is at least 1, the ring holds at most capacity events,
\* and they are the newest events emitted, oldest first: what an overflow
\* or a smaller capacity dropped is older than everything kept.
\* ------------------------------------------------------------------------
C19_RingBounded ==
    /\ auditMax >= 1
    /\ Len(ring) <= auditMax
    /\ \A i \in DOMAIN ring : ring[i] = emitted - Len(ring) + i

\* the ring is full after an overflow, and the capacity has been changed
C19_Witness ==
    /\ recentOut.op = "set_max"
    /\ Len(ring) = auditMax
    /\ Len(ring) > 0
    /\ ring[1] > 1

\* ------------------------------------------------------------------------
\* C20: at each recent call the file still holds every event whose emit
\* returned since the recent call before.
\* ------------------------------------------------------------------------
C20_NoEventLost ==
    [][\A limit \in 1..MaxLimit :
          get_recent_audit_events(limit) => sinceRecent \subseteq ElementsOf(auditFile)]_vars

\* ------------------------------------------------------------------------
\* C21: when upstream answers a forwarded request, one audit event is added:
\* registry_pull for GET/HEAD, registry_push for POST/PUT/PATCH/DELETE, with
\* the upstream status as http_status, and as bytes the length of the
\* response body for a pull and of the request body for a push.
\* ------------------------------------------------------------------------
LastOf(seq) == seq[Len(seq)]

C21_ForwardAudited ==
    [][\A status \in UpstreamStatuses, length \in UpstreamLengths :
          ProxyReply(1, status, length) =>
             /\ Len(events'[1]) = Len(events[1]) + 1
             /\ LastOf(events'[1]).event =
                    (IF D_IsPull(req[1].method) THEN "registry_pull" ELSE "registry_push")
             /\ D_IsPull(req[1].method) \/ D_IsPush(req[1].method)
             /\ LastOf(events'[1]).http_status = status
             /\ LastOf(events'[1]).bytes =
                    (IF D_IsPull(req[1].method) THEN length ELSE req[1].body)]_vars

\* upstream has answered 404 to a push with a body, and the event is there
C21_Witness ==
    /\ pc[1] = "done" /\ contacted[1]
    /\ D_IsPush(req[1].method) /\ req[1].body > 0
    /\ resp[1].status = 404
    /\ Len(events[1]) >= 1
    /\ LastOf(events[1]).event = "registry_push"

\* ------------------------------------------------------------------------
\* C22: recent(limit) returns the newest min(limit, n) of the n events that
\* the ring and the file hold, newest first.
\* ------------------------------------------------------------------------
Available == ElementsOf(ring) \cup ElementsOf(auditFile)

Newest(S) == CHOOSE x \in S : \A y \in S : y <= x

RECURSIVE NewestFirst(_, _)
NewestFirst(S, k) ==
    IF k = 0 \/ S = {} THEN <<>>
    ELSE <<Newest(S)>> \o NewestFirst(S \ {Newest(S)}, k - 1)

SyncEnded(j) == j \in DOMAIN syncJobs /\ syncJobs[j].status # "running"

C23_FinalStatus ==
    \A j \in SyncIds :
        SyncEnded(j) =>
            LET job == syncJobs[j]
                task == syncTask[j]
            IN  /\ job.status \in {"done", "partial", "error"}
                /\ job.status = "done" <=>
                       (task.planned /\ task.copied = 1..Len(task.pairs))
                /\ job.status = "partial" <=>
                       (task.planned /\ task.copied # 1..Len(task.pairs))
                /\ job.status = "error" <=> ~task.planned
                /\ job.status = "error" => task.copied = {}

\* a job of at least two pairs, all of which failed, has ended in partial
C23_Witness ==
    /\ SyncEnded("s1")
    /\ syncJobs["s1"].status = "partial"
    /\ Len(syncTask["s1"].pairs) >= 2
    /\ syncTask["s1"].copied = {}

\* ------------------------------------------------------------------------
\* C24: images_done never exceeds images_total, a job in done or partial has
\* images_done = images_total and progress 100, and every pair advances
\* images_done by one.  C24_EveryPairAdvances counts as a failed pair also one
\* whose skopeo process cannot be started, C24_ExitAdvances only the pairs
\* whose process exits, with code zero or not.
\* ------------------------------------------------------------------------
CountersInRange(jobsNow) ==
    \A j \in DOMAIN jobsNow :
        /\ jobsNow[j].images_done <= jobsNow[j].images_total
        /\ jobsNow[j].status \in {"done", "partial"} =>
               /\ jobsNow[j].images_done = jobsNow[j].images_total
               /\ jobsNow[j].progress = 100

Advances(j, outcomes) ==
    \A outcome \in outcomes :
        SyncCopied(j, outcome) => syncJobs'[j].images_done = syncJobs[j].images_done + 1

CatalogImages ==
    { [repo |-> repo, tag |-> catalog.tags[repo][i]] :
         <<repo, i>> \in { ri \in ElementsOf(catalog.repositories) \X (1..2) :
                              ri[2] <= Len(catalog.tags[ri[1]]) } }

PlannedSources(j) == { syncTask[j].pairs[i].src : i \in 1..Len(syncTask[j].pairs) }

C25_PlanCoversCatalog ==
    \A j \in SyncIds :
        (/\ syncTask[j].pc \notin {"none", "created"}
         /\ syncTask[j].planned
         /\ syncJobs[j].source.kind # "single")
        => /\ PlannedSources(j) = CatalogImages
           /\ Len(syncTask[j].pairs) = Cardinality(CatalogImages)

\* ------------------------------------------------------------------------
\* C26: once the pull pipeline of a job has ended with the status failed, the
\* staging directory holds no tarball of that job.
\* ------------------------------------------------------------------------
PullFailed(j) ==
    /\ j \in DOMAIN jobs
    /\ jobs[j].status = "failed"
    /\ pullTask[j].pc = "ended"
    /\ \A k \in 1..MaxPushes : pushTasks[j][k].pc = "none"

C26_FailedPullLeavesNothing ==
    \A j \in JobIds : PullFailed(j) => j \notin tarballs

\* ------------------------------------------------------------------------
\* C27: a failing step of the push pipeline leaves the tarball of the job
\* where it is, and a push request for the job made after that failure is
\* accepted (200) and starts the push pipeline again.
\* ------------------------------------------------------------------------
PushFailed(j) ==
    /\ j \in DOMAIN jobs
    /\ statusLog[j] = <<"pushing", "failed">>
    /\ \A k \in 1..MaxPushes : pushTasks[j][k].pc \in {"none", "ended"}

C27_FailedPushCanRetry ==
    [][\A j \in OneJob :
          /\ \A k \in 1..MaxPushes :
                (\/ PushTagged(j, k, FALSE)
                 \/ PushPushed(j, k, FALSE)
                 \/ PushCleaned(j, k, FALSE)) => tarballs' = tarballs
          /\ \A username \in Callers :
                (PushFailed(j) /\ push_image(j, username)) => api'.code = 200]_vars

\* ------------------------------------------------------------------------
\* C28: a call of the orphan purge removes exactly the entries of the staging
\* directory that are not named after a job of the table, so that the entries
\* of the jobs in the table stay and no other entry is left.
\* ------------------------------------------------------------------------
\* the job an entry is named after: "<name>.tar" or the directory "<name>"
EntryJob(name) ==
    IF name \in {"j1.tar", "j2.tar", "notes.tar"} THEN StemOf(name) ELSE name

OrphanEntries == {name \in Listing : EntryJob(name) \notin DOMAIN jobs}

C28_PurgeRemovesExactlyOrphans ==
    [][\A failing \in FailSets :
          purge_orphan_tarballs(failing) =>
             /\ api'.deleted = OrphanEntries
             /\ api'.entries = Listing \ OrphanEntries]_vars

\* ------------------------------------------------------------------------
\* C29: a call of the orphan purge that follows another one, no other staging
\* request in between, deletes nothing and leaves the staging directory and
\* the job table as they are.
\* ------------------------------------------------------------------------
PurgeChangesNothing ==
    /\ api'.deleted = {}
    /\ tarballs' = tarballs
    /\ strays' = strays
    /\ jobs' = jobs

PurgedClean ==
    /\ api.op = "purge"
    /\ api.errors = {}
    /\ api.entries = Listing

C30_BadJobId400 ==
    [][\A job_id \in {id \in RequestIds : ~IsUUID(id)} :
          (\/ get_job_status(job_id)
           \/ delete_job(job_id)
           \/ \E username \in Callers : push_image(job_id, username)
           \/ \E username \in Callers, oci_dir \in BOOLEAN :
                 /\ require_push_access(get_current_user(username))
                 /\ push_to_external(job_id, username, oci_dir, TRUE))
          => /\ api'.code = 400
             /\ jobs' = jobs
             /\ tarballs' = tarballs
             /\ strays' = strays]_vars

\* ------------------------------------------------------------------------
\* C31: the summary of a scan that returned has blocked = TRUE exactly when
\* the report holds a vulnerability of one of the severities of the job, and
\* the pull pipeline then ends in scan_vulnerable, otherwise in scan_clean.
\* ------------------------------------------------------------------------
\* the pull pipeline of j has ended after a trivy run
Scanned(j) ==
    /\ j \in DOMAIN jobs
    /\ pullTask[j].pc = "ended"
    /\ "run" \in DOMAIN pullTask[j]

\* a vulnerability of the report has one of the requested severities, both
\* compared without regard to case
HasRequested(raw, report) ==
    \E i \in 1..Len(raw), k \in 1..Len(report) :
        Upper(raw[i]) = (IF report[k] = None THEN "UNKNOWN" ELSE Upper(report[k]))

C31_BlockedIffRequestedFound ==
    \A j \in JobIds :
        (Scanned(j) /\ ~pullTask[j].vuln_summary.raised) =>
            LET found == HasRequested(pullTask[j].raw, pullTask[j].run.report)
            IN  /\ pullTask[j].vuln_summary.blocked <=> found
                /\ jobs[j].status = IF found THEN "scan_vulnerable" ELSE "scan_clean"

\* a report with a vulnerability that is not requested and none that is
C31_Witness ==
    /\ Scanned("j1")
    /\ ~pullTask["j1"].vuln_summary.raised
    /\ Len(pullTask["j1"].run.report) > 0
    /\ ~pullTask["j1"].vuln_summary.blocked
    /\ jobs["j1"].status = "scan_clean"

\* ------------------------------------------------------------------------
\* C32: a trivy run that started and returned 0 or 1 with a JSON report ends
\* the pull pipeline in scan_clean or scan_vulnerable; a run with another
\* return code ends it in failed.
\* ------------------------------------------------------------------------
C32_ExitCodeOneIsSuccess ==
    \A j \in JobIds :
        (Scanned(j) /\ pullTask[j].run.started /\ pullTask[j].run.parsed) =>
            IF pullTask[j].run.returncode \in {0, 1}
            THEN jobs[j].status \in {"scan_clean", "scan_vulnerable"}
            ELSE jobs[j].status = "failed"

\* ------------------------------------------------------------------------
\* C33: the password field of every entry returned by list, create and update
\* is empty or the mask; the response is the one the same request gets on a
\* store whose non-empty passwords are replaced by other non-empty ones; the
\* password given to create or update is stored as given.
\* ------------------------------------------------------------------------
\* another non-empty password for every non-empty one
OtherPassword(password) ==
    IF password \in {"", None} THEN password
    ELSE IF password = "s3cret" THEN "hunter2" ELSE "s3cret"

OtherStore(regs) ==
    [i \in 1..Len(regs) |-> [regs[i] EXCEPT !.password = OtherPassword(regs[i].password)]]

Masked(password) == password \in {"", Mask}

StoredPassword(regs, id) == regs[get_registry_by_id(regs, id)].password

C33_PasswordsRedacted ==
    [][/\ list_registries =>
            /\ \A i \in 1..Len(regOut'.result) : Masked(regOut'.result[i].password)
            /\ regOut'.result = get_registries(OtherStore(registries))
       /\ \A id \in RegistryIds, host \in Hosts, password \in Passwords :
             add_registry(id, "n", host, "u", password) =>
                /\ Masked(regOut'.result.password)
                /\ regOut'.result =
                      create_registry(OtherStore(registries), id, "n", host, "u",
                                      OtherPassword(password)).result
                /\ StoredPassword(registries', id) = password
       /\ \A id \in RegistryIds, name \in {None, "n"}, host \in {None} \cup Hosts,
             username \in {None, "u"}, password \in {None} \cup Passwords :
             (edit_registry(id, name, host, username, password) /\ regOut'.code = 200) =>
                /\ Masked(regOut'.result.password)
                /\ regOut'.result =
                      update_registry(OtherStore(registries), id, name, host, username,
                                      OtherPassword(password)).result
                /\ StoredPassword(registries', id) =
                      IF password \in {None, ""} THEN StoredPassword(registries, id)
                      ELSE password]_vars

\* a list of two entries was returned, one with a stored password and one without
C33_Witness ==
    /\ regOut.op = "list"
    /\ Len(registries) = 2
    /\ registries[1].password = "s3cret"
    /\ registries[2].password = ""
    /\ regOut.result[1].password = Mask
    /\ regOut.result[2].password = ""

\* ------------------------------------------------------------------------
\* C34: a run of _run_gc starts the garbage-collect command again only after
\* a failed first attempt followed by a ghost cleanup that removed a path,
\* and only once: no run starts the command more than twice, a failure with
\* nothing cleaned ends the run in failed, and so does a failed retry.
\* ------------------------------------------------------------------------
\* the moves of a run between its awaits; the command is started on entering
\* "gc1", "tmp" and "gc2"
GCEdges ==
    { <<"none", "queued">>, <<"queued", "find">>, <<"find", "gc1">>, <<"find", "tmp">>,
      <<"find", "ended">>, <<"gc1", "ended">>, <<"gc1", "ghosts">>, <<"ghosts", "gc2">>,
      <<"ghosts", "ended">>, <<"gc2", "ended">>, <<"tmp", "ended">> }

RunFailed(k) == gc'.status = "failed" /\ gcTasks'[k].pc = "ended" /\ gcExec' = gcExec

C34_RetryAtMostOnce ==
    [][\A k \in 1..MaxGCRuns :
          /\ gcTasks'[k].pc # gcTasks[k].pc => <<gcTasks[k].pc, gcTasks'[k].pc>> \in GCEdges
          /\ (gcTasks'[k].pc = "gc2" /\ gcTasks[k].pc # "gc2") =>
                (GCGhosts(k, TRUE) /\ gcExec'.attempt = "retry")
          /\ GCFirst(k, FALSE) => (gcExec' = gcExec /\ gcTasks'[k].pc = "ghosts")
          /\ GCGhosts(k, FALSE) => RunFailed(k)
          /\ GCLast(k, FALSE) => RunFailed(k)]_vars

\* a run has ended in failed after its retry
C34_Witness ==
    \E k \in 1..MaxGCRuns :
        /\ gcTasks[k].pc = "ended"
        /\ gcExec.run = "_run_gc"
        /\ gcExec.attempt = "retry"
        /\ gc.status = "failed"
        /\ gc.finished_at = k

\* ------------------------------------------------------------------------
\* C35: every run of _run_gc that was started ends, and at its end the state
\* is done or failed with finished_at set and freed_bytes equal to
\* max(0, size_before - size_after).
\* ------------------------------------------------------------------------
RunEnds(k) == gcTasks[k].pc # "ended" /\ gcTasks'[k].pc = "ended"

EveryRunEnds == \A k \in DiskRuns : (gcTasks[k].pc = "queued") ~> (gcTasks[k].pc = "ended")

C35_EndsWithFreedBytes ==
    /\ EveryRunEnds
    /\ [][\A k \in 1..MaxGCRuns :
             RunEnds(k) =>
                /\ gc'.status \in {"done", "failed"}
                /\ gc'.finished_at # 0
                /\ gc'.freed_bytes = Max({0, gcTasks[k].size_before - gcDisk})]_vars

\* the same with freed_bytes as the code assigns it: the clamped difference,
\* or 0 when the usage cannot be read, in a run that ends in done; not
\* assigned in a run that ends in failed
C35_EndsDoneWithFreedBytes ==
    /\ EveryRunEnds
    /\ [][\A k \in 1..MaxGCRuns :
             RunEnds(k) =>
                /\ gc'.status \in {"done", "failed"}
                /\ gc'.finished_at # 0
                /\ gc'.freed_bytes >= 0
                /\ gc'.status = "done" =>
                      gc'.freed_bytes \in {Max({0, gcTasks[k].size_before - gcDisk}), 0}
                /\ gc'.status = "failed" => gc'.freed_bytes = gc.freed_bytes]_vars

\* a run has ended in done while the usage was above the one it measured first
C35_Witness ==
    \E k \in 1..MaxGCRuns :
        /\ gcTasks[k].pc = "ended"
        /\ gc.status = "done"
        /\ gc.finished_at = k
        /\ gcTasks[k].size_before < gcDisk
        /\ gc.freed_bytes = 0

\* ------------------------------------------------------------------------
\* C36: a job that was deleted is in the job table in no later state, whatever
\* its pull and push pipelines do after the delete.
\* ------------------------------------------------------------------------
\* the id was drawn for a job and the job is no longer in the table
WasDeleted(j) == j \in issued /\ j \notin DOMAIN jobs

C36_DeletedStaysDeleted ==
    [][\A j \in JobIds : WasDeleted(j) => j \notin DOMAIN jobs']_vars

\* the pull pipeline of a deleted job has gone on after the delete: it has
\* written the tarball and ended
C36_Witness ==
    /\ WasDeleted("j1")
    /\ pullTask["j1"].pc = "ended"
    /\ "j1" \in tarballs

\* ------------------------------------------------------------------------
\* C37: a request or a pipeline step that names a job leaves the record of
\* every other job of the table as it is.
\* ------------------------------------------------------------------------
C37_OtherJobsUnchanged ==
    [][\A a \in JobIds :
          JobStep(a) =>
             \A b \in DOMAIN jobs \ {a} : b \in DOMAIN jobs' /\ jobs'[b] = jobs[b]]_vars

\* one job has been pushed and the other is in the table with its scan running
C37_Witness ==
    /\ DOMAIN jobs = JobIds
    /\ jobs["j1"].status = "done"
    /\ jobs["j2"].status = "vuln_scanning"

\* a sync job whose status is done, partial or error
SyncTerminal(job) == job.status \in {"done", "partial", "error"}

\* C38: for every sync job, finished_at is set exactly when status is no
\* longer running, and once status is done, partial or error neither the
\* status nor the counters (images_total, images_done, progress) of the job
\* change again.
C38_FinishedIffNotRunning ==
    /\ [](\A j \in DOMAIN syncJobs :
             (syncJobs[j].finished_at # None) <=> (syncJobs[j].status # "running"))
    /\ [][\A j \in DOMAIN syncJobs :
             SyncTerminal(syncJobs[j])
                => /\ j \in DOMAIN syncJobs'
                   /\ syncJobs'[j].status = syncJobs[j].status
                   /\ syncJobs'[j].images_total = syncJobs[j].images_total
                   /\ syncJobs'[j].images_done = syncJobs[j].images_done
                   /\ syncJobs'[j].progress = syncJobs[j].progress]_vars

\* one job ended in error while planning and stays as it was while another
\* runs its copies to the end; both have finished_at set
C38_Witness ==
    \E j, k \in DOMAIN syncJobs :
        /\ syncJobs[j].status = "error" /\ syncJobs[j].finished_at # None
        /\ syncJobs[k].status \in {"done", "partial"} /\ syncJobs[k].finished_at # None
        /\ syncJobs[k].images_done > 1
        /\ syncTask[j].pc = "ended" /\ syncTask[k].pc = "ended"

IsSuffix(s, t) ==
    /\ Len(s) <= Len(t)
    /\ \A i \in 1..Len(s) : s[i] = t[Len(t) - Len(s) + i]

NoEmitUnderWay == \A t \in Threads : emitter[t].pc = "idle"

====
